---- MODULE Spec2Model ----
(***************************************************************************)
(* Longhurst province assignment of sparse2spatial/LonghurstProvince.py:   *)
(* the boundary store built by ParseLonghurstProvinceFile, the point       *)
(* classifier Get_LonghurstProvince4coord (bounding-box pre-filter,        *)
(* crossings test, resolution) and the three integer<->code registries.    *)
(*                                                                         *)
(* Conventions of the model                                                *)
(*  - A Python dict is an insertion-ordered sequence of <<key, value>>     *)
(*    items with pairwise distinct keys (DictSet, DictGet, DictHas).       *)
(*  - A GML coordinate string "lon,lat lon,lat ..." is the sequence of     *)
(*    its <<lonText, latText>> pieces, i.e. the text after split(' ') and  *)
(*    split(','); float turns a decimal numeral into its number.           *)
(*  - Coordinates are integers; only their order matters to the code.      *)
(*  - A raised KeyError is the outcome [kind |-> "KeyError", key |-> k].   *)
(*  - The module imports nothing: the names np, pd and xr are bound        *)
(*    nowhere and evaluating one of them raises NameError.                 *)
(*  - A feature node is a record of its child elements; an element the     *)
(*    node does not have is a field the record does not have.              *)
(***************************************************************************)
EXTENDS Integers, Sequences, FiniteSets, TLC

VARIABLES
    file,        \* the content of longhurst.xml: a sequence of feature nodes
    provinces,   \* the store's dict fid -> province record (after load)
    tree,        \* the parsed document handed to the classifier (after load)
    num2prov,    \* the code -> index dict handed to the classifier
    pc,          \* position of the caller / of the running call
    myLon,       \* longitude of the running call
    myLat,       \* latitude of the running call
    verbose,     \* the verbose flag of the running call
    inProvince,  \* the call's dict fid -> bool
    crossings,   \* per fid, the counter of the last node tested for it
    stdout,      \* what the running call has printed, one entry per print
    ret,         \* outcome of the last finished call
    memo,        \* what an observer noted of one finished call
    reg,         \* state of a registry lookup session
    df,          \* the table of a batch run: its rows and the new column
    bind,        \* what the names provinces, tree, num2prov of the call refer to
    other        \* the locals of a second call running at the same time

vars == <<file, provinces, tree, num2prov, pc, myLon, myLat, verbose,
          inProvince, crossings, stdout, ret, memo, reg, df, bind, other>>

classifierVars == <<file, provinces, tree, num2prov, pc, myLon, myLat, verbose,
                    inProvince, crossings, stdout, ret, bind>>

----------------------------------------------------------------------------
(* Bounds of the model *)

\* Coordinates of box corners, ring vertices and queries range over -G..G.
G == 1

\* Longest ring (number of vertices) of the free-ring files.
MaxRingLen == 3

\* The observer counts the calls made after the one it noted up to here.
MaxLater == 1

\* Most rows of the table of a batch run.
MaxRows == 2

\* Most corners of the closed rings (the first vertex is repeated as last).
MaxCorners == 3

\* Most latitudes, and most longitudes, of the grid of a dataset.
MaxAxis == 2

Coord == -G..G

----------------------------------------------------------------------------
(* Python building blocks *)

Range(s) == {s[i] : i \in DOMAIN s}

DictHas(d, k) == \E i \in DOMAIN d : d[i][1] = k

DictGet(d, k) == d[CHOOSE i \in DOMAIN d : d[i][1] = k][2]

\* d[k] = v: an existing key keeps its position, a new key goes last.
DictSet(d, k, v) ==
    IF DictHas(d, k)
    THEN [i \in DOMAIN d |-> IF d[i][1] = k THEN <<k, v>> ELSE d[i]]
    ELSE Append(d, <<k, v>>)

DictKeys(d) == {d[i][1] : i \in DOMAIN d}

\* A dict literal / comprehension, the items being set in order: a key
\* stands where it first occurs and holds the value of its last occurrence.
DictOf(items) ==
    LET first   == {i \in DOMAIN items :
                       \A j \in 1..(i - 1) : items[j][1] # items[i][1]}
        nth(n)  == CHOOSE i \in first : Cardinality({j \in first : j < i}) = n - 1
        last(k) == CHOOSE j \in DOMAIN items :
                       /\ items[j][1] = k
                       /\ \A m \in (j + 1)..Len(items) : items[m][1] # k
    IN  [n \in 1..Cardinality(first) |->
            <<items[nth(n)][1], items[last(items[nth(n)][1])][2]>>]

\* The numbers whose numerals occur in the files of the model.
Numbers == -(G + 2)..(G + 2)

\* The decimal numeral of each number.
Numeral == [n \in Numbers |-> ToString(n)]

\* float(text) for a decimal numeral.
float(s) == CHOOSE n \in Numbers : Numeral[n] = s

\* Python values that meet in one place (dict keys, return values) are tagged.
PyInt(n) == [kind |-> "int", int |-> n]

PyStr(s) == [kind |-> "str", str |-> s]

\* float('nan'), a key that callers look up.
NaN == [kind |-> "NaN"]

\* None, the input the callers pass when they ask for the dict.
None == [kind |-> "None"]

NameError(name) == [kind |-> "NameError", name |-> name]

\* The name np as the module has it: no statement binds it, so every
\* expression that starts with it (np.NaN, np.isfinite(...)) raises NameError.
np == NameError("np")

KeyError(k) == [kind |-> "KeyError", key |-> k]

ValueError(k) == [kind |-> "ValueError", key |-> k]

TypeError(k) == [kind |-> "TypeError", key |-> k]

\* No value yet (a call that has not returned).
NoValue == [kind |-> "none"]

----------------------------------------------------------------------------
(* The three integer <-> code registries *)

MITItems ==
    <<
      <<1, "FKLD">>, <<2, "CHIL">>, <<3, "TASM">>, <<4, "BRAZ">>,
      <<5, "SATL">>, <<6, "EAFR">>, <<7, "AUSW">>, <<8, "AUSE">>,
      <<9, "ISSG">>, <<10, "BENG">>, <<11, "ARCH">>, <<12, "SUND">>,
      <<13, "GUIN">>, <<14, "PEQD">>, <<15, "MONS">>, <<16, "ETRA">>,
      <<17, "CNRY">>, <<18, "GUIA">>, <<19, "ARAB">>, <<20, "WTRA">>,
      <<21, "KURO">>, <<22, "NECS">>, <<23, "NASE">>, <<24, "PSAE">>,
      <<25, "CHIN">>, <<26, "INDE">>, <<27, "CAMR">>, <<28, "PNEC">>,
      <<29, "REDS">>, <<30, "INDW">>, <<31, "CARB">>, <<32, "NPTG">>,
      <<33, "NATR">>, <<34, "MEDI">>, <<35, "CCAL">>, <<36, "NWCS">>,
      <<37, "NASW">>, <<38, "GFST">>, <<39, "NADR">>, <<40, "ALSK">>,
      <<41, "ARCT">>, <<42, "SARC">>, <<43, "NEWZ">>, <<44, "SSTC">>,
      <<45, "SPSG">>, <<46, "PSAW">>, <<47, "BERS">>, <<48, "NPPF">>,
      <<49, "NPSW">>, <<50, "ANTA">>, <<51, "SANT">>, <<52, "WARM">>,
      <<53, "APLR">>, <<54, "BPLR">>
    >>

MarineRegionsOrgItems ==
    <<
      <<0, "BPLR">>, <<1, "ARCT">>, <<2, "SARC">>, <<3, "NADR">>,
      <<4, "GFST">>, <<5, "NASW">>, <<6, "NATR">>, <<7, "WTRA">>,
      <<8, "ETRA">>, <<9, "SATL">>, <<10, "NECS">>, <<11, "CNRY">>,
      <<12, "GUIN">>, <<13, "GUIA">>, <<14, "NWCS">>, <<15, "MEDI">>,
      <<16, "CARB">>, <<17, "NASE">>, <<18, "BRAZ">>, <<19, "FKLD">>,
      <<20, "BENG">>, <<21, "MONS">>, <<22, "ISSG">>, <<23, "EAFR">>,
      <<24, "REDS">>, <<25, "ARAB">>, <<26, "INDE">>, <<27, "INDW">>,
      <<28, "AUSW">>, <<29, "BERS">>, <<30, "PSAE">>, <<31, "PSAW">>,
      <<32, "KURO">>, <<33, "NPPF">>, <<34, "NPSW">>, <<35, "TASM">>,
      <<36, "SPSG">>, <<37, "NPTG">>, <<38, "PNEC">>, <<39, "PEQD">>,
      <<40, "WARM">>, <<41, "ARCH">>, <<42, "ALSK">>, <<43, "CCAL">>,
      <<44, "CAMR">>, <<45, "CHIL">>, <<46, "CHIN">>, <<47, "SUND">>,
      <<48, "AUSE">>, <<49, "NEWZ">>, <<50, "SSTC">>, <<51, "SANT">>,
      <<52, "ANTA">>, <<53, "APLR">>
    >>

RosieItems ==
    <<
      <<1, "BPLR">>, <<2, "ARCT">>, <<3, "SARC">>, <<4, "NADR">>,
      <<5, "GFST">>, <<6, "NASW">>, <<7, "NATR">>, <<8, "WTRA">>,
      <<9, "ETRA">>, <<10, "SATL">>, <<11, "NECS">>, <<12, "CNRY">>,
      <<13, "GUIN">>, <<14, "GUIA">>, <<15, "NWCS">>, <<16, "MEDI">>,
      <<17, "CARB">>, <<18, "NASE">>, <<19, "CHSB">>, <<20, "BRAZ">>,
      <<21, "FKLD">>, <<22, "BENG">>, <<30, "MONS">>, <<31, "ISSG">>,
      <<32, "EAFR">>, <<33, "REDS">>, <<34, "ARAB">>, <<35, "INDE">>,
      <<36, "INDW">>, <<37, "AUSW">>, <<50, "BERS">>, <<51, "PSAE">>,
      <<52, "PSAW">>, <<53, "KURO">>, <<54, "NPPF">>, <<55, "NPSE">>,
      <<56, "NPSW">>, <<57, "OCAL">>, <<58, "TASM">>, <<59, "SPSG">>,
      <<60, "NPTG">>, <<61, "PNEC">>, <<62, "PEQD">>, <<63, "WARM">>,
      <<64, "ARCH">>, <<65, "ALSK">>, <<66, "CCAL">>, <<67, "CAMR">>,
      <<68, "CHIL">>, <<69, "CHIN">>, <<70, "SUND">>, <<71, "AUSE">>,
      <<72, "NEWZ">>, <<80, "SSTC">>, <<81, "SANT">>, <<82, "ANTA">>,
      <<83, "APLR">>, <<99, "LAKE">>
    >>

\* A registry literal whose last index repeats the code of the first.
Num2ProvLiteralDup(items) ==
    DictOf([i \in DOMAIN items |->
              <<PyInt(items[i][1]),
                PyStr(items[IF i = Len(items) THEN 1 ELSE i][2])>>])

\* The dict literal of a registry: int keys, str values, in source order.
Num2ProvLiteral(items) ==
    DictOf([i \in DOMAIN items |-> <<PyInt(items[i][1]), PyStr(items[i][2])>>])

\* {v: k for k, v in list(num2prov.items())}
Invert(d) == DictOf([i \in DOMAIN d |-> <<d[i][2], d[i][1]>>])

\* The common body of the three lookup functions up to "return num2prov[input]".
Num2Province(literal, input, invert, rtn_dict) ==
    LET d == IF invert THEN Invert(literal) ELSE literal
    IN  IF rtn_dict THEN [kind |-> "dict", dict |-> d]
        ELSE IF DictHas(d, input) THEN DictGet(d, input)
        ELSE KeyError(input)

LonghurstProvinceFileNum2Province(input, invert, rtn_dict) ==
    Num2Province(Num2ProvLiteral(MITItems), input, invert, rtn_dict)

\* The MarineRegions-order lookup over the literal of Rosie's table.
MarineRegionsOrgOverRosieLiteral(input, invert, rtn_dict) ==
    Num2Province(Num2ProvLiteral(RosieItems), input, invert, rtn_dict)

MarineRegionsOrg_LonghurstProvinceFileNum2Province(input, invert, rtn_dict) ==
    Num2Province(Num2ProvLiteral(MarineRegionsOrgItems), input, invert, rtn_dict)

\* Rosie's lookup without its try / except: the KeyError leaves it.
RosieNoExcept(input, invert, rtn_dict) ==
    Num2Province(Num2ProvLiteral(RosieItems), input, invert, rtn_dict)

\* As above, with the except clause of lines 414-422: for a missing key
\* line 417 evaluates np.isfinite(input) first, and the name np raises
\* NameError whatever the key is; lines 418-422 are not reached.
RosieLonghurstProvinceFileNum2Province(input, invert, rtn_dict) ==
    LET r == Num2Province(Num2ProvLiteral(RosieItems), input, invert, rtn_dict)
    IN  IF r.kind # "KeyError" THEN r ELSE np

LonghurstProvinceDictItems ==
    <<
      <<"ALSK", "AlaskaDownwellingCoastalProvince">>,
      <<"ANTA", "AntarcticProvince">>,
      <<"APLR", "AustralPolarProvince">>,
      <<"ARAB", "NWArabianUpwellingProvince">>,
      <<"ARCH", "ArchipelagicDeepBasinsProvince">>,
      <<"ARCT", "AtlanticArcticProvince">>,
      <<"AUSE", "EastAustralianCoastalProvince">>,
      <<"AUSW", "AustraliaIndonesiaCoastalProvince">>,
      <<"BENG", "BenguelaCurrentCoastalProvince">>,
      <<"BERS", "N.PacificEpicontinentalProvince">>,
      <<"BPLR", "BorealPolarProvince(POLR)">>,
      <<"BRAZ", "BrazilCurrentCoastalProvince">>,
      <<"CAMR", "CentralAmericanCoastalProvince">>,
      <<"CARB", "CaribbeanProvince">>,
      <<"CCAL", "CaliforniaUpwellingCoastalProvince">>,
      <<"CHIL", "ChilePeruCurrentCoastalProvince">>,
      <<"CHIN", "ChinaSeaCoastalProvince">>,
      <<"CHSB", "CheasapeakeBayProvince">>,
      <<"CNRY", "CanaryCoastalProvince(EACB)">>,
      <<"EAFR", "E.AfricaCoastalProvince">>,
      <<"ETRA", "EasternTropicalAtlanticProvince">>,
      <<"FKLD", "SWAtlanticShelvesProvince">>,
      <<"GFST", "GulfStreamProvince">>,
      <<"GUIA", "GuianasCoastalProvince">>,
      <<"GUIN", "GuineaCurrentCoastalProvince">>,
      <<"INDE", "E.IndiaCoastalProvince">>,
      <<"INDW", "W.IndiaCoastalProvince">>,
      <<"ISSG", "IndianS.SubtropicalGyreProvince">>,
      <<"KURO", "KuroshioCurrentProvince">>,
      <<"LAKE", "CaspianSea,AralSea">>,
      <<"MEDI", "MediterraneanSea,BlackSeaProvince">>,
      <<"MONS", "IndianMonsoonGyresProvince">>,
      <<"NADR", "N.AtlanticDriftProvince(WWDR)">>,
      <<"NASE", "N.AtlanticSubtropicalGyralProvince(East)(STGE)">>,
      <<"NASW", "N.AtlanticSubtropicalGyralProvince(West)(STGW)">>,
      <<"NATR", "N.AtlanticTropicalGyralProvince(TRPG)">>,
      <<"NECS", "NEAtlanticShelvesProvince">>,
      <<"NEWZ", "NewZealandCoastalProvince">>,
      <<"NPPF", "N.PacificPolarFrontProvince">>,
      <<"NPSE", "N.PacificSubtropicalGyreProvince(East)">>,
      <<"NPSW", "N.PacificSubtropicalGyreProvince(West)">>,
      <<"NPTG", "N.PacificTropicalGyreProvince">>,
      <<"NWCS", "NWAtlanticShelvesProvince">>,
      <<"OCAL", "OffshoreCaliforniaCurrentProvince">>,
      <<"PEQD", "PacificEquatorialDivergenceProvince">>,
      <<"PNEC", "N.PacificEquatorialCountercurrentProvince">>,
      <<"PSAE", "PacificSubarcticGyresProvince(East)">>,
      <<"PSAW", "PacificSubarcticGyresProvince(West)">>,
      <<"REDS", "RedSea,PersianGulfProvince">>,
      <<"SANT", "SubantarcticProvince">>,
      <<"SARC", "AtlanticSubarcticProvince">>,
      <<"SATL", "SouthAtlanticGyralProvince(SATG)">>,
      <<"SPSG", "S.PacificSubtropicalGyreProvince">>,
      <<"SSTC", "S.SubtropicalConvergenceProvince">>,
      <<"SUND", "SundaArafuraShelvesProvince">>,
      <<"TASM", "TasmanSeaProvince">>,
      <<"WARM", "W.PacificWarmPoolProvince">>,
      <<"WTRA", "WesternTropicalAtlanticProvince">>
    >>

\* The dict literal code -> full name without its last entry, 'WTRA'.
LonghurstProvinceDictShort ==
    DictOf([i \in 1..(Len(LonghurstProvinceDictItems) - 1) |->
              <<PyStr(LonghurstProvinceDictItems[i][1]),
                PyStr(LonghurstProvinceDictItems[i][2])>>])

\* Lines 427-486: the dict literal code -> full name.
LonghurstProvinceDict ==
    DictOf([i \in DOMAIN LonghurstProvinceDictItems |->
              <<PyStr(LonghurstProvinceDictItems[i][1]),
                PyStr(LonghurstProvinceDictItems[i][2])>>])

\* Line 487: return LonghurstProvinceDict[input].
Get_LonghurstProvinceName4Num(input) ==
    IF DictHas(LonghurstProvinceDict, input)
    THEN DictGet(LonghurstProvinceDict, input)
    ELSE KeyError(input)

----------------------------------------------------------------------------
(* The boundary file and its parse *)

\* node.getElementsByTagName('gml:coordinates'), in document order: the
\* coordinates of gml:boundedBy, then those of every ring of the_geom.
RECURSIVE Flatten(_)
Flatten(ss) == IF ss = <<>> THEN <<>> ELSE Head(ss) \o Flatten(Tail(ss))

GetCoordinates(node) == node.boundedBy \o Flatten(node.the_geom)

\* What a function hands back: the value it returns or the error it raises.
Returned(v) == [raised |-> FALSE, value |-> v]

Raised(e) == [raised |-> TRUE, error |-> e]

IndexError == [kind |-> "IndexError"]

UnpackError == [kind |-> "ValueError", in |-> "unpack"]

FloatError == [kind |-> "ValueError", in |-> "float"]

\* float(text) raises ValueError: the text is no numeral.
floatRaises(s) == \A n \in Numbers : Numeral[n] # s

\* The loop body of ParseLonghurstProvinceFile for one node, lines 316-333:
\* [0] of an empty element list raises IndexError, "x1, y1 = ..." of a piece
\* that has not two parts raises ValueError, as float of a non-number does.
ParseNode(node) ==
    IF "provcode" \notin DOMAIN node THEN Raised(IndexError)
    ELSE IF "provdescr" \notin DOMAIN node THEN Raised(IndexError)
    ELSE IF GetCoordinates(node) = <<>> THEN Raised(IndexError)
    ELSE LET b == GetCoordinates(node)[1]
         IN  IF Len(b[1]) # 2 THEN Raised(UnpackError)
             ELSE IF Len(b) < 2 THEN Raised(IndexError)
             ELSE IF Len(b[2]) # 2 THEN Raised(UnpackError)
             ELSE IF \E k \in 1..2, j \in 1..2 : floatRaises(b[k][j])
                  THEN Raised(FloatError)
             ELSE Returned([provName |-> node.provdescr,
                            provCode |-> node.provcode,
                            x1 |-> float(b[1][1]), y1 |-> float(b[1][2]),
                            x2 |-> float(b[2][1]), y2 |-> float(b[2][2])])

\* ParseNodes keeping what it has when a node fails.
RECURSIVE ParseNodesPartial(_, _)
ParseNodesPartial(nodes, provs) ==
    IF nodes = <<>> THEN Returned(provs)
    ELSE LET r == ParseNode(Head(nodes))
         IN  IF r.raised THEN Returned(provs)
             ELSE ParseNodesPartial(Tail(nodes),
                                    DictSet(provs, Head(nodes).fid, r.value))

\* ParseNodes with the entries keyed by provCode.
RECURSIVE ParseNodesByCode(_, _)
ParseNodesByCode(nodes, provs) ==
    IF nodes = <<>> THEN Returned(provs)
    ELSE LET r == ParseNode(Head(nodes))
         IN  IF r.raised THEN r
             ELSE ParseNodesByCode(Tail(nodes),
                                   DictSet(provs, Head(nodes).provcode, r.value))

\* Lines 313-333: the loop over the nodes; an error leaves the function.
RECURSIVE ParseNodes(_, _)
ParseNodes(nodes, provs) ==
    IF nodes = <<>> THEN Returned(provs)
    ELSE LET r == ParseNode(Head(nodes))
         IN  IF r.raised THEN r
             ELSE ParseNodes(Tail(nodes),
                             DictSet(provs, Head(nodes).fid, r.value))

\* Returns <<provinces, tree>>, or raises what the loop raised.
ParseLonghurstProvinceFile(doc) ==
    LET r == ParseNodes(doc, <<>>)
    IN  IF r.raised THEN r ELSE Returned(<<r.value, doc>>)

----------------------------------------------------------------------------
(* Get_LonghurstProvince4coord *)

\* The dict of the previous call, as a dict shared between calls would be.
StaleDict == inProvince

\* Line 227: inProvince = {}, a dict of the call's own.
EmptyDict == <<>>

\* InBBox with the southern bound exclusive.
InBBoxStrict(box, lon, lat) ==
    LET inLat == lat > box.y1 /\ lat <= box.y2
        inLon == lon >= box.x1 /\ lon <= box.x2
    IN  inLat /\ inLon

\* Lines 229-235: inLat and inLon of one province record.
InBBox(box, lon, lat) ==
    LET inLat == lat >= box.y1 /\ lat <= box.y2
        inLon == lon >= box.x1 /\ lon <= box.x2
    IN  inLat /\ inLon

\* Lines 228-236: the dict of the boundaries whose bounding box holds the
\* coordinate, in the order of the provinces dict.
RECURSIVE BBoxFilter(_, _, _, _)
BBoxFilter(provs, lon, lat, inP) ==
    IF provs = <<>> THEN inP
    ELSE LET p == Head(provs)[1]
         IN  BBoxFilter(Tail(provs), lon, lat,
                        IF InBBox(Head(provs)[2], lon, lat)
                        THEN DictSet(inP, p, TRUE) ELSE inP)

\* Lines 250-254: the vertex pairs of one coordinate string.
pairs(coordStr) ==
    [k \in DOMAIN coordStr |->
        <<float(coordStr[k][1]), float(coordStr[k][2])>>]

\* Lines 258-259, for the 1-based pair (prs[i], prs[i+1]).
passLat(prs, i, lat) ==
    (prs[i][2] >= lat /\ prs[i + 1][2] <= lat)
    \/ (prs[i][2] <= lat /\ prs[i + 1][2] >= lat)

\* passLon on the first vertex of the pair.
passLonFirstVertex(prs, i, lon) == lon <= prs[i][1]

\* Line 261.
passLon(prs, i, lon) == lon <= prs[i + 1][1]

\* PairLoop over the closed ring: the pair (last, first) is tested too.
PairLoopClosing(prs, i, lon, lat, c) ==
    LET nxt(k) == IF k = Len(prs) THEN 1 ELSE k + 1
    IN  c + Cardinality({k \in i..Len(prs) :
                /\ lon <= prs[nxt(k)][1]
                /\ ((prs[k][2] >= lat /\ prs[nxt(k)][2] <= lat)
                    \/ (prs[k][2] <= lat /\ prs[nxt(k)][2] >= lat))})

\* Lines 256-263: for i in range(len(pairs)-1), from counter c.
RECURSIVE PairLoop(_, _, _, _, _)
PairLoop(prs, i, lon, lat, c) ==
    IF i > Len(prs) - 1 THEN c
    ELSE PairLoop(prs, i + 1, lon, lat,
                  IF passLon(prs, i, lon) /\ passLat(prs, i, lat)
                  THEN c + 1 ELSE c)

\* CoordinatesLoop with the vertices of all the rings in one list of pairs.
CoordinatesLoopJoined(cs, lon, lat, c) ==
    PairLoop(pairs(Flatten(cs)), 1, lon, lat, c)

\* Lines 247-263: for i in c, over the coordinate strings of one geometry.
RECURSIVE CoordinatesLoop(_, _, _, _)
CoordinatesLoop(cs, lon, lat, c) ==
    IF cs = <<>> THEN c
    ELSE CoordinatesLoop(Tail(cs), lon, lat,
                         PairLoop(pairs(Head(cs)), 1, lon, lat, c))

\* Lines 244-263: for g in geom.
RECURSIVE GeomLoop(_, _, _, _)
GeomLoop(geom, lon, lat, c) ==
    IF geom = <<>> THEN c
    ELSE GeomLoop(Tail(geom), lon, lat,
                  CoordinatesLoop(Head(geom), lon, lat, c))

\* Lines 242-263: the counter of one node, from 0.
NodeCrossings(node, lon, lat) == GeomLoop(node.the_geom, lon, lat, 0)

\* inProvince.get(fid), as a truth value.
Truthy(inP, fid) == DictHas(inP, fid) /\ DictGet(inP, fid) = TRUE

\* Lines 239-267 over the nodes of the tree, on the pair
\* [inP: the inProvince dict, cnt: the counter last computed per fid].
RECURSIVE CrossingsTest(_, _, _, _)
CrossingsTest(nodes, lon, lat, st) ==
    IF nodes = <<>> THEN st
    ELSE LET node == Head(nodes)
             fid  == node.fid
             n    == NodeCrossings(node, lon, lat)
         IN  CrossingsTest(Tail(nodes), lon, lat,
                IF Truthy(st.inP, fid)
                THEN [inP |-> DictSet(st.inP, fid, n % 2 = 1),
                      cnt |-> DictSet(st.cnt, fid, n)]
                ELSE st)

\* Lines 270-274: the [provCode, provName] of every entry that is True.
RECURSIVE Solution(_, _, _)
Solution(inP, provs, sol) ==
    IF inP = <<>> THEN sol
    ELSE LET i == Head(inP)[1]
         IN  Solution(Tail(inP), provs,
                IF Head(inP)[2] = TRUE
                THEN Append(sol, <<DictGet(provs, i).provCode,
                                   DictGet(provs, i).provName>>)
                ELSE sol)

\* Resolution returning solution[0][0], the code, for one solution.
ResolutionReturnsCode(solution, registry) ==
    IF Len(solution) = 1 THEN PyStr(solution[1][1]) ELSE np

\* Resolution with num2prov.get(code) for num2prov[code].
ResolutionGetDefault(solution, registry) ==
    IF Len(solution) # 1 THEN np
    ELSE IF DictHas(registry, PyStr(solution[1][1]))
         THEN DictGet(registry, PyStr(solution[1][1]))
         ELSE None

\* Resolution with an outcome of its own for several solutions.
ResolutionAmbiguousMarker(solution, registry) ==
    IF Len(solution) = 0 THEN np
    ELSE IF Len(solution) = 1
         THEN IF DictHas(registry, PyStr(solution[1][1]))
              THEN DictGet(registry, PyStr(solution[1][1]))
              ELSE KeyError(PyStr(solution[1][1]))
         ELSE [kind |-> "Ambiguous"]

\* print(...): the arguments of one call of print.
print(args) == args

\* Lines 277-283, 287-291 and 296-301: what the call prints.
VerbosePrints(v, solution, inP, provs, lon, lat) ==
    IF ~v THEN <<>>
    ELSE IF Len(solution) = 0
    THEN <<print(<<>>),
           print(<<PyStr("No province found matching "), PyInt(lat),
                   PyStr("N, "), PyInt(lon), PyStr("E.  ")>>),
           print(<<PyStr("This coordinate is either on land or it could be in one of these... ")>>)>>
         \o [i \in DOMAIN inP |->
                print(<<PyStr(DictGet(provs, inP[i][1]).provCode), PyStr("\t"),
                        PyStr(DictGet(provs, inP[i][1]).provName)>>)]
         \o <<print(<<>>)>>
    ELSE IF Len(solution) = 1
    THEN <<print(<<>>),
           print(<<PyInt(lat), PyStr("N, "), PyInt(lon), PyStr("E -->  "),
                   PyStr(solution[1][1]), PyStr("\t"), PyStr(solution[1][2])>>),
           print(<<>>)>>
    ELSE <<print(<<>>), print(<<PyStr("Conflict between these provinces... ")>>)>>
         \o [i \in DOMAIN solution |->
                print(<<PyStr(solution[1][1]), PyStr("\t"), PyStr(solution[1][2])>>)]
         \o <<print(<<>>)>>

\* Lines 276-302: what the call returns or raises (verbose only prints).
\* "return np.NaN" of lines 284 and 302 evaluates the name np, which raises
\* NameError; only line 293 returns a value.
Resolution(solution, registry) ==
    IF Len(solution) = 0 THEN np
    ELSE IF Len(solution) = 1
         THEN IF DictHas(registry, PyStr(solution[1][1]))
              THEN DictGet(registry, PyStr(solution[1][1]))
              ELSE KeyError(PyStr(solution[1][1]))
         ELSE np

----------------------------------------------------------------------------
(* The callers: load once, then classify coordinate after coordinate *)

\* add_LonghurstProvince2table / add_LonghurstProvince2NetCDF, first line.
\* The error of a failed parse leaves the caller: nothing is bound.
Load ==
    /\ pc = "start"
    /\ LET r == ParseLonghurstProvinceFile(file)
       IN  IF r.raised
           THEN /\ pc' = "loadfailed"
                /\ UNCHANGED <<provinces, tree>>
           ELSE /\ provinces' = r.value[1]
                /\ tree' = r.value[2]
                /\ pc' = "ready"
    /\ UNCHANGED <<file, num2prov, myLon, myLat, verbose, inProvince,
                   crossings, stdout, ret, memo, reg, df, bind, other>>

\* An observer's note of one finished call, and the number of calls made
\* since with other coordinates (counted up to MaxLater).
NoMemo == [kind |-> "none"]

Tick(m, lon, lat) ==
    IF m.kind = "none" \/ (m.lon = lon /\ m.lat = lat) \/ m.later >= MaxLater
    THEN m
    ELSE [m EXCEPT !.later = m.later + 1]

\* What the names of a call refer to when it is entered: the caller's
\* object where one is given, None where the argument is left out.
Passed(gp, gt, gn) ==
    [provinces |-> IF gp THEN "caller" ELSE "None",
     tree      |-> IF gt THEN "caller" ELSE "None",
     num2prov  |-> IF gn THEN "caller" ELSE "None",
     given     |-> <<gp, gt, gn>>]

\* The load of lines 224-225 keeping a tree that the caller supplied.
ReloadedKeepsTree(b) ==
    [b EXCEPT !.provinces = "fresh",
              !.tree = IF b.tree = "None" THEN "fresh" ELSE b.tree]

\* Lines 224-225: both names are bound to what a parse of the file returns.
Reloaded(b) == [b EXCEPT !.provinces = "fresh", !.tree = "fresh"]

\* The objects behind the names of the running call.
theProvinces ==
    IF bind.provinces = "fresh"
    THEN ParseLonghurstProvinceFile(file).value[1] ELSE provinces

theTree ==
    IF bind.tree = "fresh"
    THEN ParseLonghurstProvinceFile(file).value[2] ELSE tree

\* A call without lines 224-225: it never parses the file.
CallWithNoLoad(lon, lat, v, gp, gt, gn) ==
    /\ pc \in {"ready", "done"}
    /\ myLon' = lon
    /\ myLat' = lat
    /\ verbose' = v
    /\ stdout' = <<>>
    /\ inProvince' = EmptyDict
    /\ crossings' = <<>>
    /\ bind' = Passed(gp, gt, gn)
    /\ ret' = NoValue
    /\ pc' = "filter"
    /\ memo' = Tick(memo, lon, lat)
    /\ UNCHANGED <<file, provinces, tree, num2prov, reg, df, other>>

\* Lines 196-227: a call with coords = (lon, lat) and verbose = v, given the
\* caller's provinces, tree, num2prov or not (gp, gt, gn). Without provinces
\* the file is parsed; an error of the parse leaves the call.
CallWith(lon, lat, v, gp, gt, gn) ==
    /\ pc \in {"ready", "done"}
    /\ myLon' = lon
    /\ myLat' = lat
    /\ verbose' = v
    /\ stdout' = <<>>
    /\ inProvince' = EmptyDict
    /\ crossings' = <<>>
    /\ IF gp
       THEN /\ bind' = Passed(gp, gt, gn)
            /\ ret' = NoValue
            /\ pc' = "filter"
       ELSE LET r == ParseLonghurstProvinceFile(file)
            IN  IF r.raised
                THEN /\ bind' = Passed(gp, gt, gn)
                     /\ ret' = r.error
                     /\ pc' = "done"
                ELSE /\ bind' = Reloaded(Passed(gp, gt, gn))
                     /\ ret' = NoValue
                     /\ pc' = "filter"
    /\ memo' = Tick(memo, lon, lat)
    /\ UNCHANGED <<file, provinces, tree, num2prov, reg, df, other>>

\* GetProv(x): a call with provinces, tree and num2prov given.
Call(lon, lat, v) == CallWith(lon, lat, v, TRUE, TRUE, TRUE)

\* Prefilter dropping from the store the boundaries it rejects.
PrefilterPrunesStore ==
    /\ pc = "filter"
    /\ inProvince' = BBoxFilter(theProvinces, myLon, myLat, inProvince)
    /\ provinces' = SelectSeq(provinces,
                              LAMBDA item : InBBox(item[2], myLon, myLat))
    /\ pc' = "crossings"
    /\ UNCHANGED <<file, tree, num2prov, myLon, myLat, verbose, crossings,
                   stdout, ret, memo, reg, df, bind, other>>

Prefilter ==
    /\ pc = "filter"
    /\ inProvince' = BBoxFilter(theProvinces, myLon, myLat, inProvince)
    /\ pc' = "crossings"
    /\ UNCHANGED <<file, provinces, tree, num2prov, myLon, myLat, verbose,
                   crossings, stdout, ret, memo, reg, df, bind, other>>

\* Line 239 on a tree that is None: None has no getElementsByTagName.
AttributeError == [kind |-> "AttributeError"]

Crossings ==
    /\ pc = "crossings"
    /\ IF bind.tree = "None"
       THEN /\ ret' = AttributeError
            /\ pc' = "done"
            /\ UNCHANGED <<inProvince, crossings>>
       ELSE LET st == CrossingsTest(theTree, myLon, myLat,
                                    [inP |-> inProvince, cnt |-> <<>>])
            IN  /\ inProvince' = st.inP
                /\ crossings' = st.cnt
                /\ pc' = "resolve"
                /\ ret' = ret
    /\ UNCHANGED <<file, provinces, tree, num2prov, myLon, myLat, verbose,
                   stdout, memo, reg, df, bind, other>>

\* Lines 276-302 for a num2prov that may be None: None[code] at line 293
\* raises TypeError, the other returns do not read num2prov.
ResolutionWith(solution, hasRegistry, registry) ==
    IF ~hasRegistry /\ Len(solution) = 1
    THEN TypeError(PyStr(solution[1][1]))
    ELSE Resolution(solution, registry)

\* Resolve with line 292 alive under verbose: the code is returned.
ResolveVerboseReturnsCode ==
    /\ pc = "resolve"
    /\ LET solution == Solution(inProvince, theProvinces, <<>>)
       IN  /\ stdout' = VerbosePrints(verbose, solution, inProvince,
                                      theProvinces, myLon, myLat)
           /\ ret' = IF verbose /\ Len(solution) = 1
                     THEN PyStr(solution[1][1])
                     ELSE ResolutionWith(solution, bind.num2prov # "None",
                                         num2prov)
    /\ pc' = "done"
    /\ UNCHANGED <<file, provinces, tree, num2prov, myLon, myLat, verbose,
                   inProvince, crossings, memo, reg, df, bind, other>>

Resolve ==
    /\ pc = "resolve"
    /\ LET solution == Solution(inProvince, theProvinces, <<>>)
       IN  /\ stdout' = VerbosePrints(verbose, solution, inProvince,
                                      theProvinces, myLon, myLat)
           /\ ret' = ResolutionWith(solution, bind.num2prov # "None", num2prov)
    /\ pc' = "done"
    /\ UNCHANGED <<file, provinces, tree, num2prov, myLon, myLat, verbose,
                   inProvince, crossings, memo, reg, df, bind, other>>

----------------------------------------------------------------------------
(* Boundary files of the model *)

\* The text of a vertex and of a coordinate string.
Vertex(x, y) == <<Numeral[x], Numeral[y]>>

CoordStr(points) == [k \in DOMAIN points |-> Vertex(points[k][1], points[k][2])]

Descr(code) ==
    CASE code = "NADR" -> "Westerlies - N. Atlantic Drift Province (WWDR)"
      [] code = "CHSB" -> "Coastal - Chesapeake Bay Province"
      [] OTHER -> "Test Province"

Feature(fid, code, box, geom) ==
    [fid |-> fid, provcode |-> code, provdescr |-> Descr(code),
     boundedBy |-> <<CoordStr(<<<<box[1], box[2]>>, <<box[3], box[4]>>>>)>>,
     the_geom |-> geom]

\* NADR is in all three registries, CHSB in Rosie's only, TEST in none.
Codes == {"NADR", "CHSB", "TEST"}

Boxes == {b \in Coord \X Coord \X Coord \X Coord : b[1] <= b[3] /\ b[2] <= b[4]}

CornerBoxes == {b \in Boxes : \A k \in 1..4 : b[k] \in {-G, G}}

\* One polygon whose ring is the closed square with corners (-G,-G), (G,G).
SquareGeom ==
    <<<<CoordStr(<<<<-G, -G>>, <<G, -G>>, <<G, G>>, <<-G, G>>, <<-G, -G>>>>)>>>>

FilesOne == {<<Feature("f1", c, b, SquareGeom)>> : c \in Codes, b \in Boxes}

\* One polygon whose ring is the closed rectangle over the western half.
WestGeom ==
    <<<<CoordStr(<<<<-G, -G>>, <<0, -G>>, <<0, G>>, <<-G, G>>, <<-G, -G>>>>)>>>>

FilesTwo ==
    {<<Feature("f1", c[1], b[1], SquareGeom), Feature("f2", c[2], b[2], g)>> :
        c \in Codes \X Codes, b \in CornerBoxes \X CornerBoxes,
        g \in {SquareGeom, WestGeom}}

Files == {<<>>} \cup FilesOne \cup FilesTwo

FullBox == <<-G, -G, G, G>>

\* Lines 125-126: the code -> index dict the callers pass.
Rnum2prov == RosieLonghurstProvinceFileNum2Province(None, TRUE, TRUE).dict

\* No batch is running.
NoTable == [kind |-> "none"]

\* No second call is running.
NoCall == [pc |-> "off"]

\* The code -> index dicts a caller can pass (invert=True, rtn_dict=True).
Registries ==
    {Rnum2prov,
     LonghurstProvinceFileNum2Province(None, TRUE, TRUE).dict,
     MarineRegionsOrg_LonghurstProvinceFileNum2Province(None, TRUE, TRUE).dict}

InitCommon ==
    /\ provinces = <<>>
    /\ tree = <<>>
    /\ pc = "start"
    /\ myLon = 0
    /\ myLat = 0
    /\ verbose = FALSE
    /\ inProvince = <<>>
    /\ crossings = <<>>
    /\ stdout = <<>>
    /\ ret = NoValue
    /\ memo = NoMemo
    /\ bind = Passed(TRUE, TRUE, TRUE)
    /\ other = NoCall

Init ==
    /\ num2prov \in Registries
    /\ file \in Files
    /\ reg = [pc |-> "off"]
    /\ df = NoTable
    /\ InitCommon

Next ==
    \/ Load
    \/ \E lon \in Coord, lat \in Coord : Call(lon, lat, FALSE)
    \/ Prefilter
    \/ Crossings
    \/ Resolve

Spec == Init /\ [][Next]_vars

----------------------------------------------------------------------------
(* Repeated calls under observation *)

\* A caller keeps the outcome of one finished call, to compare it with the
\* outcomes of later calls.
Observe ==
    /\ pc = "done"
    /\ memo = NoMemo
    /\ memo' = [kind |-> "call", lon |-> myLon, lat |-> myLat, ret |-> ret,
                inside |-> {k \in DictKeys(inProvince) : Truthy(inProvince, k)},
                verbose |-> verbose, later |-> 0]
    /\ UNCHANGED <<classifierVars, reg, df, other>>

FilesDet ==
    {<<>>}
    \cup {<<Feature("f1", "NADR", b, SquareGeom)>> : b \in CornerBoxes}
    \cup {<<Feature("f1", "NADR", b, SquareGeom), Feature("f2", "CHSB", FullBox, g)>> :
            b \in CornerBoxes, g \in {SquareGeom, WestGeom}}

InitDet ==
    /\ num2prov \in {Rnum2prov, LonghurstProvinceFileNum2Province(None, TRUE, TRUE).dict}
    /\ file \in FilesDet
    /\ reg = [pc |-> "off"]
    /\ df = NoTable
    /\ InitCommon

NextDet == Next \/ Observe

SpecDet == InitDet /\ [][NextDet]_vars

\* Calls with and without verbose, under observation.
NextVerbose ==
    \/ Load
    \/ \E lon \in Coord, lat \in Coord, v \in BOOLEAN : Call(lon, lat, v)
    \/ Prefilter
    \/ Crossings
    \/ Resolve
    \/ Observe

SpecVerbose == InitDet /\ [][NextVerbose]_vars

----------------------------------------------------------------------------
(* A batch run: add_LonghurstProvince2table, add_LonghurstProvince2NetCDF *)

\* Lines 117-134: the caller's frame df with its rows (lon, lat) and the
\* column Coord that line 134 adds; col collects what GetProv returned for
\* the rows so far, assigned tells that 'MIT Province' has been set.
Table2add(rows) ==
    [kind |-> "table", rows |-> rows, col |-> <<>>, assigned |-> FALSE]

\* A frame that brings a column 'Province' along.
WithProvince(table, Province) ==
    [kind |-> "table", rows |-> table.rows, col |-> table.col,
     assigned |-> table.assigned, Province |-> Province]

\* Lines 122-123: df is None and get_processed_df_obs_mod is a name that is
\* bound nowhere.
DefaultTable ==
    /\ df = None
    /\ pc = "ready"
    /\ ret' = NameError("get_processed_df_obs_mod")
    /\ pc' = "aborted"
    /\ UNCHANGED <<file, provinces, tree, num2prov, myLon, myLat, verbose,
                   inProvince, crossings, stdout, memo, reg, df, bind, other>>

\* Line 134 on a frame without rows: apply does not go row by row, it hands
\* back a copy of the frame, and a frame of two columns or more cannot be
\* assigned to the one column Coord: ValueError.
ApplyEmpty ==
    /\ df.kind = "table"
    /\ pc = "ready"
    /\ Len(df.rows) = 0
    /\ ret' = ValueError(PyStr("Coord"))
    /\ pc' = "aborted"
    /\ UNCHANGED <<file, provinces, tree, num2prov, myLon, myLat, verbose,
                   inProvince, crossings, stdout, memo, reg, df, bind, other>>

\* df.apply(GetProv, axis=1) reaching the next row: GetProv(x) calls the
\* classifier with the row's coordinates and verbose=False.
GetProv ==
    /\ df.kind = "table"
    /\ pc = "ready"
    /\ Len(df.col) < Len(df.rows)
    /\ LET x == df.rows[Len(df.col) + 1]
       IN  Call(x[1], x[2], FALSE)

\* The call returned: apply keeps the value of the row.
ApplyCollect ==
    /\ df.kind = "table"
    /\ pc = "done"
    /\ ret.kind = "int"
    /\ df' = [df EXCEPT !.col = Append(df.col, ret)]
    /\ pc' = "ready"
    /\ UNCHANGED <<file, provinces, tree, num2prov, myLon, myLat, verbose,
                   inProvince, crossings, stdout, ret, memo, reg, bind, other>>

\* The call raised: nothing catches the error, it leaves GetProv, apply and
\* the function that runs the batch.
ApplyRaise ==
    /\ df.kind = "table"
    /\ pc = "done"
    /\ ret.kind # "int"
    /\ pc' = "aborted"
    /\ UNCHANGED <<file, provinces, tree, num2prov, myLon, myLat, verbose,
                   inProvince, crossings, stdout, ret, memo, reg, df, bind, other>>

\* Line 140: apply is through the rows, the column 'MIT Province' is
\* assigned.
ApplyAssign ==
    /\ df.kind = "table"
    /\ pc = "ready"
    /\ Len(df.rows) > 0
    /\ Len(df.col) = Len(df.rows)
    /\ df' = [df EXCEPT !.assigned = TRUE]
    /\ pc' = "assigned"
    /\ UNCHANGED <<file, provinces, tree, num2prov, myLon, myLat, verbose,
                   inProvince, crossings, stdout, ret, memo, reg, bind, other>>

\* Series.map(RosieLonghurstProvinceFileNum2Province): the lookup of every
\* value in turn; the first lookup that raises ends the map.
Map(series) ==
    LET out == [i \in DOMAIN series |->
                   RosieLonghurstProvinceFileNum2Province(series[i], FALSE, FALSE)]
        bad == {i \in DOMAIN series : out[i].kind # "str"}
    IN  IF bad = {} THEN Returned(out)
        ELSE Raised(out[CHOOSE i \in bad : \A j \in bad : i <= j])

\* Lines 143-146: df['Province'] (KeyError without that column) and
\* df['MIT Province'] are mapped to codes and become two more columns.
MapNames ==
    /\ df.kind = "table"
    /\ pc = "assigned"
    /\ IF "Province" \notin DOMAIN df
       THEN /\ ret' = KeyError(PyStr("Province"))
            /\ pc' = "aborted"
            /\ df' = df
       ELSE LET R == Map(df.Province)
                M == Map(df.col)
            IN  IF R.raised
                THEN /\ ret' = R.error
                     /\ pc' = "aborted"
                     /\ df' = df
                ELSE IF M.raised
                THEN /\ ret' = M.error
                     /\ pc' = "aborted"
                     /\ df' = [kind |-> "table", rows |-> df.rows, col |-> df.col,
                               assigned |-> TRUE, Province |-> df.Province,
                               PNameR |-> R.value]
                ELSE /\ ret' = ret
                     /\ pc' = "mapped"
                     /\ df' = [kind |-> "table", rows |-> df.rows, col |-> df.col,
                               assigned |-> TRUE, Province |-> df.Province,
                               PNameR |-> R.value, PNameMIT |-> M.value]
    /\ UNCHANGED <<file, provinces, tree, num2prov, myLon, myLat, verbose,
                   inProvince, crossings, stdout, memo, reg, bind, other>>

\* str.format: the text that the format string makes of its arguments.
format(PrtStr, args) == [format |-> PrtStr, args |-> args]

\* a / n * 100, named by its numerator and denominator.
Percent(a, n) == <<a * 100, n>>

\* Lines 150-160: two lines are printed, the number of rows with the share
\* of rows whose two province numbers agree and the number of rows without
\* 'Province'; then line 160 evaluates np.isfinite: NameError. Lines 161-193
\* are not reached.
CheckAssignment ==
    /\ df.kind = "table"
    /\ pc = "mapped"
    /\ LET N    == Len(df.rows)
           Ns   == Cardinality({i \in DOMAIN df.rows : df.col[i] = df.Province[i]})
           Nnan == Cardinality({i \in DOMAIN df.rows : df.Province[i] # NaN})
       IN  stdout' = <<print(<<format("#={}  ({:.2f}%) are the calculated to be the same thing ",
                                      <<N, Percent(Ns, N)>>)>>),
                       print(<<format("The % non matching, observations without provinces #={} ({:.2f}%)",
                                      <<N - Nnan, Percent(N - Nnan, N)>>)>>)>>
    /\ ret' = np
    /\ pc' = "aborted"
    /\ UNCHANGED <<file, provinces, tree, num2prov, myLon, myLat, verbose,
                   inProvince, crossings, memo, reg, df, bind, other>>

Rows == UNION {[1..n -> Coord \X Coord] : n \in 0..MaxRows}

\* The columns 'Province' of the frames: per row the Rosie number
\* of NADR, that of CHSB, or NaN for a row without province.
ProvinceColumns(n) == [1..n -> {PyInt(4), PyInt(19), NaN}]

\* TEST is no code of Rosie's table, which both batch callers pass.
FilesBatch ==
    {<<Feature("f1", c, b, SquareGeom)>> : c \in {"NADR", "TEST"}, b \in CornerBoxes}

InitBatch ==
    /\ num2prov = Rnum2prov
    /\ file \in FilesBatch
    /\ reg = [pc |-> "off"]
    /\ \/ df = None
       \/ \E rows \in Rows :
             \/ df = Table2add(rows)
             \/ \E P \in ProvinceColumns(Len(rows)) :
                   df = WithProvince(Table2add(rows), P)
    /\ InitCommon

NextBatch ==
    \/ Load
    \/ DefaultTable
    \/ ApplyEmpty
    \/ GetProv
    \/ Prefilter
    \/ Crossings
    \/ Resolve
    \/ ApplyCollect
    \/ ApplyRaise
    \/ ApplyAssign
    \/ MapNames
    \/ CheckAssignment

SpecBatch == InitBatch /\ [][NextBatch]_vars

----------------------------------------------------------------------------
(* Files with features that miss elements or hold text that is no number *)

\* A node without one of its child elements.
Without(node, field) == [f \in DOMAIN node \ {field} |-> node[f]]

FeatureKinds ==
    {"good", "nocode", "noname", "nocoords", "onepair", "threeparts",
     "nonnumeric", "nobox"}

\* The feature fid in each of the kinds: as it should be; without provcode;
\* without provdescr; without any gml:coordinates; with a single pair in the
\* first gml:coordinates; with a pair of three parts there; with a text that
\* is no number there; without gml:boundedBy but with its ring.
FeatureOfKind(fid, kind) ==
    LET good == Feature(fid, "NADR", FullBox, SquareGeom)
    IN  CASE kind = "good" -> good
          [] kind = "nocode" -> Without(good, "provcode")
          [] kind = "noname" -> Without(good, "provdescr")
          [] kind = "nocoords" ->
                [good EXCEPT !.boundedBy = <<>>, !.the_geom = <<>>]
          [] kind = "onepair" ->
                [good EXCEPT !.boundedBy = <<CoordStr(<<<<-G, -G>>>>)>>]
          [] kind = "threeparts" ->
                [good EXCEPT !.boundedBy =
                    <<<<Vertex(-G, -G), <<Numeral[G], Numeral[G], Numeral[0]>>>>>>]
          [] kind = "nonnumeric" ->
                [good EXCEPT !.boundedBy =
                    <<<<Vertex(-G, -G), <<Numeral[G], "north">>>>>>]
          [] kind = "nobox" -> [good EXCEPT !.boundedBy = <<>>]

FilesLoad ==
    {<<FeatureOfKind("f1", k)>> : k \in FeatureKinds}
    \cup {<<FeatureOfKind("f1", k[1]), FeatureOfKind("f2", k[2])>> :
            k \in FeatureKinds \X FeatureKinds}

InitLoad ==
    /\ num2prov = Rnum2prov
    /\ file \in FilesLoad
    /\ reg = [pc |-> "off"]
    /\ df = NoTable
    /\ InitCommon

SpecLoad == InitLoad /\ [][Next]_vars

----------------------------------------------------------------------------
(* Files with one feature whose ring is any vertex sequence *)

\* Ring vertices lie on the grid -1..1; the queries range over Coord.
RingCoord == -1..1

Rings == UNION {[1..n -> RingCoord \X RingCoord] : n \in 1..MaxRingLen}

FilesRing == {<<Feature("f1", "NADR", FullBox, <<<<CoordStr(r)>>>>)>> : r \in Rings}

InitRing ==
    /\ num2prov = Rnum2prov
    /\ file \in FilesRing
    /\ reg = [pc |-> "off"]
    /\ df = NoTable
    /\ InitCommon

SpecRing == InitRing /\ [][Next]_vars

----------------------------------------------------------------------------
(* Files whose first feature has several rings in several geometry elements *)

\* The rings are single edges between the corners of the square.
Edges == {<<a, b>> : a \in {-1, 1} \X {-1, 1}, b \in {-1, 1} \X {-1, 1}}

\* Two rings in a first geometry element, one in a second.
MultiGeom(r1, r2, r3) == <<<<CoordStr(r1), CoordStr(r2)>>, <<CoordStr(r3)>>>>

\* The second feature has the one edge from (1,-1) to (1,1).
FilesMulti ==
    {<<Feature("f1", "NADR", FullBox, MultiGeom(r1, r2, r3)),
       Feature("f2", "CHSB", FullBox, <<<<CoordStr(<<<<1, -1>>, <<1, 1>>>>)>>>>)>> :
        r1 \in Edges, r2 \in Edges, r3 \in Edges}

InitMulti ==
    /\ num2prov = Rnum2prov
    /\ file \in FilesMulti
    /\ reg = [pc |-> "off"]
    /\ df = NoTable
    /\ InitCommon

SpecMulti == InitMulti /\ [][Next]_vars

----------------------------------------------------------------------------
(* Files with one feature whose ring is closed, in the box of its extent *)

Min(S) == CHOOSE x \in S : \A y \in S : x <= y

Max(S) == CHOOSE x \in S : \A y \in S : x >= y

\* The ring through the corners, back to the first.
Closed(corners) == Append(corners, corners[1])

\* <<x1, y1, x2, y2>> of the smallest box that holds the vertices.
Extent(ring) ==
    <<Min({ring[k][1] : k \in DOMAIN ring}), Min({ring[k][2] : k \in DOMAIN ring}),
      Max({ring[k][1] : k \in DOMAIN ring}), Max({ring[k][2] : k \in DOMAIN ring})>>

\* Twice the signed area of the triangle a, b, c.
Turn(a, b, c) == (b[1] - a[1]) * (c[2] - a[2]) - (b[2] - a[2]) * (c[1] - a[1])

\* Three corners or more, with a turn at every corner.
Corners ==
    {c \in UNION {[1..n -> RingCoord \X RingCoord] : n \in 3..MaxCorners} :
        \A k \in DOMAIN c :
            Turn(c[k], c[(k % Len(c)) + 1], c[((k + 1) % Len(c)) + 1]) # 0}

FilesClosed ==
    {<<Feature("f1", "NADR", Extent(c), <<<<CoordStr(Closed(c))>>>>)>> : c \in Corners}

InitClosed ==
    /\ num2prov = Rnum2prov
    /\ file \in FilesClosed
    /\ reg = [pc |-> "off"]
    /\ df = NoTable
    /\ InitCommon

SpecClosed == InitClosed /\ [][Next]_vars

----------------------------------------------------------------------------
(* Files whose features are closed axis-aligned rectangles *)

RectCoord == -(G + 1)..(G + 1)

\* The rectangles that have a grid point strictly inside.
Rects ==
    {b \in RectCoord \X RectCoord \X RectCoord \X RectCoord :
        b[3] - b[1] >= 2 /\ b[4] - b[2] >= 2}

\* The closed ring of rectangle b from corner number start (0..3 counter-
\* clockwise from (x1, y1)), counter-clockwise or clockwise.
RectRing(b, start, ccw) ==
    LET corner == <<<<b[1], b[2]>>, <<b[3], b[2]>>, <<b[3], b[4]>>, <<b[1], b[4]>>>>
        at(k)  == corner[((IF ccw THEN start + k ELSE start + 4 - k) % 4) + 1]
    IN  <<at(0), at(1), at(2), at(3), at(0)>>

RectFeature(fid, code, b, start, ccw) ==
    Feature(fid, code, b, <<<<CoordStr(RectRing(b, start, ccw))>>>>)

OtherRects == {<<-(G + 1), -(G + 1), 0, 0>>}

FilesRect ==
    {<<RectFeature("f1", "NADR", b, s, o)>> :
        b \in Rects, s \in 0..3, o \in BOOLEAN}
    \cup {<<RectFeature("f1", "NADR", b, s, o), RectFeature("f2", "CHSB", c, 0, TRUE)>> :
        b \in Rects, s \in 0..3, o \in BOOLEAN, c \in OtherRects}

InitRect ==
    /\ num2prov = Rnum2prov
    /\ file \in FilesRect
    /\ reg = [pc |-> "off"]
    /\ df = NoTable
    /\ InitCommon

NextRect ==
    \/ Load
    \/ \E lon \in RectCoord, lat \in RectCoord : Call(lon, lat, FALSE)
    \/ Prefilter
    \/ Crossings
    \/ Resolve

SpecRect == InitRect /\ [][NextRect]_vars

----------------------------------------------------------------------------
(* A session of registry lookups *)

TableNames == {"MIT", "MarineRegionsOrg", "Rosie"}

ItemsOf(t) ==
    CASE t = "MIT" -> MITItems
      [] t = "MarineRegionsOrg" -> MarineRegionsOrgItems
      [] t = "Rosie" -> RosieItems

Table(t, input, invert, rtn_dict) ==
    CASE t = "MIT" -> LonghurstProvinceFileNum2Province(input, invert, rtn_dict)
      [] t = "MarineRegionsOrg" ->
            MarineRegionsOrg_LonghurstProvinceFileNum2Province(input, invert, rtn_dict)
      [] t = "Rosie" -> RosieLonghurstProvinceFileNum2Province(input, invert, rtn_dict)

\* Every code of the three tables, and one code of none.
LookupCodes ==
    UNION {{ItemsOf(t)[i][2] : i \in DOMAIN ItemsOf(t)} : t \in TableNames}
    \cup {"TEST"}

\* f(code, invert=True): the index of a code.
RegInvertLookup(t, code) ==
    /\ reg.pc = "idle"
    /\ reg' = [pc |-> "inverted", table |-> t, code |-> code,
               index |-> Table(t, PyStr(code), TRUE, FALSE)]
    /\ UNCHANGED <<classifierVars, memo, df, other>>

\* f(index): the code of the index the first lookup returned.
RegLookup ==
    /\ reg.pc = "inverted"
    /\ reg.index.kind = "int"
    /\ reg' = [pc |-> "back", table |-> reg.table, code |-> reg.code,
               index |-> reg.index,
               back |-> Table(reg.table, reg.index, FALSE, FALSE)]
    /\ UNCHANGED <<classifierVars, memo, df, other>>

\* f(None, rtn_dict=True) and f(None, invert=True, rtn_dict=True).
RegDicts(t) ==
    /\ reg.pc = "idle"
    /\ reg' = [pc |-> "dicts", table |-> t,
               fwd |-> Table(t, None, FALSE, TRUE).dict,
               inv |-> Table(t, None, TRUE, TRUE).dict]
    /\ UNCHANGED <<classifierVars, memo, df, other>>

\* The keys of the lookups of the session: indices that are registered in
\* some tables, in all or in none, codes likewise, and np.NaN.
LookupKeys ==
    {PyInt(n) : n \in {0, 4, 23, 54, 99, 100}}
    \cup {PyStr(c) : c \in {"NADR", "CHSB", "LAKE", "TEST"}}
    \cup {NaN}

\* f(key) or f(key, invert=True) for any key.
RegCall(t, key, invert) ==
    /\ reg.pc = "idle"
    /\ reg' = [pc |-> "called", table |-> t, key |-> key, invert |-> invert,
               out |-> Table(t, key, invert, FALSE)]
    /\ UNCHANGED <<classifierVars, memo, df, other>>

\* Get_LonghurstProvinceName4Num(key) for any key.
RegName(key) ==
    /\ reg.pc = "idle"
    /\ reg' = [pc |-> "named", key |-> key,
               out |-> Get_LonghurstProvinceName4Num(key)]
    /\ UNCHANGED <<classifierVars, memo, df, other>>

InitRegistry ==
    /\ file = <<>>
    /\ num2prov = <<>>
    /\ reg = [pc |-> "idle"]
    /\ df = NoTable
    /\ InitCommon

NextRegistry ==
    \/ \E t \in TableNames, code \in LookupCodes : RegInvertLookup(t, code)
    \/ RegLookup
    \/ \E t \in TableNames : RegDicts(t)
    \/ \E t \in TableNames, key \in LookupKeys, invert \in BOOLEAN :
          RegCall(t, key, invert)
    \/ \E key \in LookupKeys \cup {PyStr(c) : c \in LookupCodes} : RegName(key)

SpecRegistry == InitRegistry /\ [][NextRegistry]_vars

----------------------------------------------------------------------------
(* Properties of the bounding-box pre-filter and of the resolution *)

\* The fids the running call holds as inside.
InsideSet == {k \in DictKeys(inProvince) : DictGet(inProvince, k) = TRUE}

\* The provCode of the only inside boundary (when there is exactly one).
InsideCode == DictGet(provinces, CHOOSE k \in InsideSet : TRUE).provCode

\* C1: once the pre-filter has run, a boundary of the store is a candidate
\* if and only if y1 <= lat <= y2 and x1 <= lon <= x2, bounds inclusive, and
\* nothing else is a candidate.
C1_BBoxCandidateIff ==
    pc = "crossings" =>
        /\ DictKeys(inProvince) \subseteq DictKeys(provinces)
        /\ \A i \in DOMAIN provinces :
              LET fid == provinces[i][1]
                  b   == provinces[i][2]
              IN  DictHas(inProvince, fid)
                  <=> (b.y1 <= myLat /\ myLat <= b.y2
                       /\ b.x1 <= myLon /\ myLon <= b.x2)

\* A coordinate on a corner of one bounding box (a candidate) and outside
\* another box of the same store.
C1_Witness ==
    /\ pc = "crossings"
    /\ \E i, j \in DOMAIN provinces :
          /\ DictHas(inProvince, provinces[i][1])
          /\ myLon = provinces[i][2].x1 /\ myLat = provinces[i][2].y2
          /\ provinces[i][2].x1 < provinces[i][2].x2
          /\ ~DictHas(inProvince, provinces[j][1])

\* C3 as claimed: a finished call with no boundary classified inside
\* returned NaN (a value, not an error), whatever registry it was given.
C3_NoMatchReturnsNaN ==
    (pc = "done" /\ InsideSet = {}) => ret = NaN

\* C4: a finished call with exactly one boundary inside, whose provCode is a
\* key of the registry, returned num2prov[provCode]; with exactly one inside
\* it returned no value other than that.
C4_SingleMatchMapped ==
    (pc = "done" /\ Cardinality(InsideSet) = 1) =>
        /\ DictHas(num2prov, PyStr(InsideCode))
              => ret = DictGet(num2prov, PyStr(InsideCode))
        /\ ret.kind \in {"int", "KeyError"}

\* NADR alone inside, among two candidates, under Rosie's numbering (4).
C4_Witness ==
    /\ pc = "done"
    /\ Len(inProvince) = 2
    /\ Cardinality(InsideSet) = 1
    /\ InsideCode = "NADR"
    /\ ret = PyInt(4)

\* C6 as claimed: a finished call with more than one boundary inside
\* returned NaN: no index, no code and no error.
C6_AmbiguousNoPick ==
    (pc = "done" /\ Cardinality(InsideSet) > 1) => ret = NaN

\* C8: a finished call with exactly one boundary inside whose provCode is no
\* key of the registry raised KeyError for that code, and the store and the
\* registry are what they were: the store as loaded, the registry as passed.
C8_UnregisteredKeyError ==
    (pc = "done" /\ Cardinality(InsideSet) = 1
        /\ ~DictHas(num2prov, PyStr(InsideCode))) =>
        /\ ret = KeyError(PyStr(InsideCode))
        /\ provinces = ParseLonghurstProvinceFile(file).value[1]
        /\ tree = file
        /\ num2prov \in Registries

\* CHSB alone inside under a registry that lacks it.
C8_Witness ==
    /\ pc = "done"
    /\ Cardinality(InsideSet) = 1
    /\ InsideCode = "CHSB"
    /\ ret = KeyError(PyStr("CHSB"))

----------------------------------------------------------------------------
(* Properties of the crossings test *)

Lo(a, b) == IF a <= b THEN a ELSE b

Hi(a, b) == IF a <= b THEN b ELSE a

\* The pairs (p[i], p[i+1]) of a ring that the claim counts: the latitude
\* lies between the two vertex latitudes, ends included, and the longitude
\* is at most the longitude of p[i+1].
CountedPairs(prs, lon, lat) ==
    {i \in 1..(Len(prs) - 1) :
        /\ Lo(prs[i][2], prs[i + 1][2]) <= lat
        /\ lat <= Hi(prs[i][2], prs[i + 1][2])
        /\ lon <= prs[i + 1][1]}

\* The vertices of the only ring of a node.
RingOf(node) ==
    [k \in DOMAIN node.the_geom[1][1] |->
        <<float(node.the_geom[1][1][k][1]), float(node.the_geom[1][1][k][2])>>]

\* C2: after the crossings test, the counter of every candidate is the number
\* of consecutive vertex pairs whose latitudes enclose the query latitude
\* (ends included, either direction) and whose second vertex lies at or east
\* of the query longitude; the candidate is inside iff that number is odd.
C2_CrossingsParity ==
    pc \in {"resolve", "done"} =>
        \A k \in DOMAIN tree :
            DictHas(inProvince, tree[k].fid) =>
                LET n == Cardinality(CountedPairs(RingOf(tree[k]), myLon, myLat))
                IN  /\ DictGet(crossings, tree[k].fid) = n
                    /\ DictGet(inProvince, tree[k].fid) = (n % 2 = 1)

\* A ring of three vertices of which one pair is counted and the other has
\* the latitude between its ends but its second vertex west of the query.
C2_Witness ==
    /\ pc = "done"
    /\ Len(tree) = 1
    /\ LET prs == RingOf(tree[1])
       IN  /\ Len(prs) = 3
           /\ Cardinality(CountedPairs(prs, myLon, myLat)) = 1
           /\ \E i \in 1..2 :
                 /\ Lo(prs[i][2], prs[i + 1][2]) <= myLat
                 /\ myLat <= Hi(prs[i][2], prs[i + 1][2])
                 /\ myLon > prs[i + 1][1]
                 /\ myLon <= prs[i][1]
    /\ DictGet(inProvince, tree[1].fid) = TRUE

\* The ring prs is the explicitly closed boundary of the rectangle b.
IsClosedRectRing(prs, b) ==
    /\ b.x1 < b.x2 /\ b.y1 < b.y2
    /\ Len(prs) = 5
    /\ prs[1] = prs[5]
    /\ {prs[k] : k \in 1..4}
         = {<<b.x1, b.y1>>, <<b.x2, b.y1>>, <<b.x2, b.y2>>, <<b.x1, b.y2>>}
    /\ \A k \in 1..4 : (prs[k][1] = prs[k + 1][1]) # (prs[k][2] = prs[k + 1][2])

OutsideBBox(b, lon, lat) == lon < b.x1 \/ lon > b.x2 \/ lat < b.y1 \/ lat > b.y2

\* C5 as claimed: a coordinate strictly inside a boundary whose ring is the closed
\* rectangle of its bounding box, and outside the bounding box of every
\* other boundary, is classified inside that boundary alone and the call
\* returns the registry index of its code; a coordinate outside every
\* bounding box gives NaN. Whatever the first vertex and the orientation.
C5_RectangleInterior ==
    pc = "done" =>
        /\ \A k \in DOMAIN tree :
              LET b == DictGet(provinces, tree[k].fid)
              IN  ( /\ IsClosedRectRing(RingOf(tree[k]), b)
                    /\ b.x1 < myLon /\ myLon < b.x2
                    /\ b.y1 < myLat /\ myLat < b.y2
                    /\ \A j \in DOMAIN tree \ {k} :
                          OutsideBBox(DictGet(provinces, tree[j].fid), myLon, myLat) )
                  => /\ InsideSet = {tree[k].fid}
                     /\ ret = DictGet(num2prov, PyStr(tree[k].provcode))
        /\ (\A k \in DOMAIN tree :
                OutsideBBox(DictGet(provinces, tree[k].fid), myLon, myLat))
             => ret = NaN

----------------------------------------------------------------------------
(* Properties of repeated calls *)

\* C9: a call with the coordinates of the noted call, finished after calls
\* with other coordinates (or none), has the outcome that was noted.
C9_SameArgsSameOutcome ==
    (pc = "done" /\ memo.kind = "call"
        /\ memo.lon = myLon /\ memo.lat = myLat) => ret = memo.ret

\* The noted coordinate classified again after another one, to an index.
C9_Witness ==
    /\ pc = "done"
    /\ memo.kind = "call"
    /\ memo.later >= 1
    /\ memo.lon = myLon /\ memo.lat = myLat
    /\ ret.kind = "int"

\* NoMatch, Province or Ambiguous, by the number of boundaries inside.
OutcomeClass(inside) ==
    IF inside = {} THEN "NoMatch"
    ELSE IF Cardinality(inside) = 1 THEN "Province" ELSE "Ambiguous"

\* C7 as claimed: two finished calls of different outcome classes ended
\* with different outcomes, so that the caller can tell the classes apart.
C7_OutcomesDistinguishable ==
    (pc = "done" /\ memo.kind = "call"
        /\ OutcomeClass(memo.inside) # OutcomeClass(InsideSet))
    => memo.ret # ret

\* C7 as amended: NoMatch and Ambiguous end with one and the same outcome,
\* which is no index, and a returned province index differs from it.
C7_SentinelShared ==
    (pc = "done" /\ memo.kind = "call") =>
        /\ (OutcomeClass(memo.inside) # "Province"
             /\ OutcomeClass(InsideSet) # "Province")
            => (memo.ret = ret /\ ret.kind # "int")
        /\ (OutcomeClass(memo.inside) = "Province" /\ memo.ret.kind = "int"
             /\ OutcomeClass(InsideSet) # "Province")
            => memo.ret # ret
        /\ (OutcomeClass(InsideSet) = "Province" /\ ret.kind = "int"
             /\ OutcomeClass(memo.inside) # "Province")
            => memo.ret # ret

\* A NoMatch call noted, an Ambiguous call finished.
C7_Witness ==
    /\ pc = "done"
    /\ memo.kind = "call"
    /\ memo.inside = {}
    /\ Cardinality(InsideSet) = 2
    /\ memo.ret = ret

----------------------------------------------------------------------------
(* Properties of the registries *)

Registered(t) == {ItemsOf(t)[i][2] : i \in DOMAIN ItemsOf(t)}

\* C10: in each table a registered code has an index, the code of that index
\* is the code again, the inverse of the inverted table holds the items of
\* the table, and no two indices of the table share a code.
C10_RegistryRoundTrip ==
    /\ (reg.pc = "inverted" /\ reg.code \in Registered(reg.table))
          => reg.index.kind = "int"
    /\ (reg.pc = "back" /\ reg.code \in Registered(reg.table))
          => reg.back = PyStr(reg.code)
    /\ reg.pc = "dicts" =>
          /\ Range(Invert(reg.inv)) = Range(reg.fwd)
          /\ Len(reg.fwd) = Len(ItemsOf(reg.table))
          /\ \A i, j \in DOMAIN reg.fwd :
                reg.fwd[i][2] = reg.fwd[j][2] => i = j

\* LAKE, of Rosie's table alone, found at 99 and 99 found to be LAKE.
C10_Witness ==
    /\ reg.pc = "back"
    /\ reg.table = "Rosie"
    /\ reg.code = "LAKE"
    /\ reg.index = PyInt(99)
    /\ reg.back = PyStr("LAKE")

----------------------------------------------------------------------------
(* Properties of the lookups with keys that are not registered *)

\* The key is one of table t in the direction of the lookup.
IsRegistered(t, key, invert) ==
    IF invert
    THEN key.kind = "str" /\ key.str \in Registered(t)
    ELSE key.kind = "int" /\ \E i \in DOMAIN ItemsOf(t) : ItemsOf(t)[i][1] = key.int

\* The key is a code that has a full name.
IsNamed(key) ==
    /\ key.kind = "str"
    /\ \E i \in DOMAIN LonghurstProvinceDictItems :
          LonghurstProvinceDictItems[i][1] = key.str

\* The exceptions that are LookupErrors in Python.
LookupErrors == {"KeyError", "IndexError"}

\* C11 as claimed: a lookup in any table, in either direction, or of a full
\* name, with a key that is not registered and is not NaN, raises a
\* LookupError.
C11_UnregisteredLookupError ==
    /\ (reg.pc = "called" /\ reg.key # NaN
          /\ ~IsRegistered(reg.table, reg.key, reg.invert))
        => reg.out.kind \in LookupErrors
    /\ (reg.pc = "named" /\ reg.key # NaN /\ ~IsNamed(reg.key))
        => reg.out.kind \in LookupErrors

\* C11 as amended: with such a key the MIT and MarineRegionsOrg tables and
\* the full-name lookup raise KeyError for the key; Rosie's table catches
\* its KeyError and raises NameError, which is no LookupError.
C11_UnregisteredRaises ==
    /\ (reg.pc = "called" /\ reg.key # NaN
          /\ ~IsRegistered(reg.table, reg.key, reg.invert))
        => IF reg.table # "Rosie" THEN reg.out = KeyError(reg.key)
           ELSE reg.out.kind = "NameError" /\ reg.out.kind \notin LookupErrors
    /\ (reg.pc = "named" /\ reg.key # NaN /\ ~IsNamed(reg.key))
        => reg.out = KeyError(reg.key)

\* Index 23, which Rosie's numbering skips, looked up in Rosie's table.
C11_Witness ==
    /\ reg.pc = "called"
    /\ reg.table = "Rosie"
    /\ ~reg.invert
    /\ reg.key = PyInt(23)
    /\ reg.out.kind = "NameError"

\* C12 as claimed: every lookup service given NaN returns NaN.
C12_NaNReturnsNaN ==
    (reg.pc \in {"called", "named"} /\ reg.key = NaN) => reg.out = NaN

----------------------------------------------------------------------------
(* Properties of a batch run *)

\* The batch has ended: its function has returned or an error has left it.
BatchEnded == pc \in {"returned", "aborted"}

\* The classification of a row has ended with a lookup failure.
RowLookupFailed ==
    /\ Len(df.col) < Len(df.rows)
    /\ ret.kind = "KeyError"

\* C13 as claimed: a lookup failure of one row does not abort the batch: the
\* batch goes on, and when it has ended the column is assigned and every
\* other row has its classification.
C13_BatchRunsToCompletion ==
    (df.kind = "table" /\ RowLookupFailed) =>
        /\ pc # "aborted"
        /\ BatchEnded =>
              /\ df.assigned
              /\ \A k \in DOMAIN df.rows : k # Len(df.col) + 1 => k <= Len(df.col)

----------------------------------------------------------------------------
(* Properties of the load *)

IsNumber(text) == \E n \in Numbers : Numeral[n] = text

\* The feature lacks its province code, its province name or its bounding
\* coordinate pair (the first gml:coordinates of the feature: there is none,
\* or it has fewer than two pairs), or a bounding coordinate is not numeric
\* (a pair that has not two parts, or a part that is no number).
LacksRequired(node) ==
    \/ "provcode" \notin DOMAIN node
    \/ "provdescr" \notin DOMAIN node
    \/ node.boundedBy \o Flatten(node.the_geom) = <<>>
    \/ LET first == (node.boundedBy \o Flatten(node.the_geom))[1]
       IN  \/ Len(first) < 2
           \/ \E k \in 1..2 : \/ Len(first[k]) # 2
                              \/ \E j \in DOMAIN first[k] : ~IsNumber(first[k][j])

\* C14: once load has run on a file of which some feature lacks a required
\* field or has a non-numeric bounding coordinate, load has failed and no
\* store is bound, not even one of the features before the bad one; on any
\* other file load has bound the store of all the features.
C14_LoadAllOrNothing ==
    pc # "start" =>
        IF \E k \in DOMAIN file : LacksRequired(file[k])
        THEN pc = "loadfailed" /\ provinces = <<>> /\ tree = <<>>
        ELSE /\ pc # "loadfailed"
             /\ tree = file
             /\ Len(provinces) = Len(file)
             /\ \A k \in DOMAIN file : provinces[k][1] = file[k].fid

\* A good first feature, a second one with a non-numeric corner: no store.
C14_Witness ==
    /\ pc = "loadfailed"
    /\ Len(file) = 2
    /\ ~LacksRequired(file[1])
    /\ file[2] = FeatureOfKind("f2", "nonnumeric")
    /\ provinces = <<>>

----------------------------------------------------------------------------
(* Properties of verbose mode *)

\* C15: a call with the coordinates, store and registry of the noted call
\* but the other value of verbose has the noted outcome (the same value or
\* the same error) and holds the same boundaries as inside.
C15_VerboseNeutral ==
    (pc = "done" /\ memo.kind = "call"
        /\ memo.lon = myLon /\ memo.lat = myLat /\ memo.verbose # verbose)
    => (ret = memo.ret /\ InsideSet = memo.inside)

\* A quiet call noted that raised KeyError, and the same call made verbose:
\* it has printed its solution and raised the same KeyError.
C15_Witness ==
    /\ pc = "done"
    /\ memo.kind = "call"
    /\ memo.lon = myLon /\ memo.lat = myLat
    /\ ~memo.verbose /\ verbose
    /\ Len(stdout) = 3
    /\ ret.kind = "KeyError"
    /\ ret = memo.ret

----------------------------------------------------------------------------
(* Properties of the store under classification *)

\* C16: from the load on, through and after every call, whatever it gave,
\* the provinces mapping and the tree are what load made of the file.
C16_StoreReadOnly ==
    pc \notin {"start", "loadfailed"} =>
        /\ provinces = ParseLonghurstProvinceFile(file).value[1]
        /\ tree = ParseLonghurstProvinceFile(file).value[2]

\* A call that raised KeyError, then calls with other coordinates, the last
\* of which returned an index: the store of two boundaries is as loaded.
C16_Witness ==
    /\ pc = "done"
    /\ memo.kind = "call"
    /\ memo.ret.kind = "KeyError"
    /\ memo.later >= 1
    /\ ret.kind = "int"
    /\ Len(provinces) = 2
    /\ provinces = ParseLonghurstProvinceFile(file).value[1]

----------------------------------------------------------------------------
(* Properties of the rings as the crossings test reads them *)

\* The pair (a, b) is one the rule counts for the coordinate.
RuleHolds(a, b, lon, lat) ==
    /\ Lo(a[2], b[2]) <= lat
    /\ lat <= Hi(a[2], b[2])
    /\ lon <= b[1]

\* The pairs of the ring closed by going from its last vertex to its first.
ClosedPairs(prs) == [k \in DOMAIN prs |-> <<prs[k], prs[(k % Len(prs)) + 1]>>]

\* C17: the counter of a candidate with a ring of n vertices is the count
\* over the n-1 pairs (p[i], p[i+1]) alone: it is at most n-1, it is what
\* the closed ring would count less the pair (p[n-1], p[0]) if the rule
\* holds of that pair, and it is 0 for a ring of one vertex.
C17_RingNotClosed ==
    pc \in {"resolve", "done"} =>
        \A k \in DOMAIN tree :
            DictHas(inProvince, tree[k].fid) =>
                LET prs    == RingOf(tree[k])
                    n      == Len(prs)
                    cp     == ClosedPairs(prs)
                    closed == Cardinality({i \in 1..n :
                                  RuleHolds(cp[i][1], cp[i][2], myLon, myLat)})
                    wrap   == IF RuleHolds(prs[n], prs[1], myLon, myLat)
                              THEN 1 ELSE 0
                    cnt    == DictGet(crossings, tree[k].fid)
                IN  /\ cnt = closed - wrap
                    /\ cnt <= n - 1
                    /\ n = 1 => (cnt = 0 /\ ~Truthy(inProvince, tree[k].fid))

\* An open ring of three vertices whose closing pair the rule would count:
\* one pair is counted, the coordinate is inside; closed it would be outside.
C17_Witness ==
    /\ pc = "done"
    /\ Len(tree) = 1
    /\ LET prs == RingOf(tree[1])
       IN  /\ Len(prs) = 3
           /\ prs[3] # prs[1]
           /\ RuleHolds(prs[3], prs[1], myLon, myLat)
    /\ DictGet(crossings, tree[1].fid) = 1
    /\ Truthy(inProvince, tree[1].fid)

----------------------------------------------------------------------------
(* Properties of features with several rings *)

\* The vertices of a coordinate string.
VerticesOf(cs) == [k \in DOMAIN cs |-> <<float(cs[k][1]), float(cs[k][2])>>]

\* One entry <<g, r, i>> for every counted pair i of ring r of geometry
\* element g of the node: the per-ring counts, summed.
CountedInRings(node, lon, lat) ==
    UNION {UNION {{<<g, r, i>> :
                     i \in CountedPairs(VerticesOf(node.the_geom[g][r]), lon, lat)} :
                  r \in DOMAIN node.the_geom[g]} :
           g \in DOMAIN node.the_geom}

\* C18: the counter of a candidate is the sum over all rings of all its
\* geometry elements of the ring's own count (so no pair from the last
\* vertex of a ring to the first of the next is counted, and nothing of the
\* feature before is carried over), and it is inside iff the sum is odd.
C18_RingCountsSummed ==
    pc \in {"resolve", "done"} =>
        \A k \in DOMAIN tree :
            DictHas(inProvince, tree[k].fid) =>
                LET n == Cardinality(CountedInRings(tree[k], myLon, myLat))
                IN  /\ DictGet(crossings, tree[k].fid) = n
                    /\ DictGet(inProvince, tree[k].fid) = (n % 2 = 1)

\* Each of the three rings of the first feature counted once, the rule
\* holding of the pair from the end of its first ring to the start of its
\* second; the second feature, tested after it, has its own count of 1.
C18_Witness ==
    /\ pc = "done"
    /\ Len(tree) = 2
    /\ LET g  == tree[1].the_geom
           r1 == VerticesOf(g[1][1])
           r2 == VerticesOf(g[1][2])
           r3 == VerticesOf(g[2][1])
       IN  /\ Len(g) = 2 /\ Len(g[1]) = 2
           /\ \A r \in {r1, r2, r3} : Cardinality(CountedPairs(r, myLon, myLat)) = 1
           /\ RuleHolds(r1[Len(r1)], r2[1], myLon, myLat)
    /\ DictGet(crossings, tree[1].fid) = 3
    /\ DictGet(crossings, tree[2].fid) = 1
    /\ DictGet(inProvince, tree[1].fid) = TRUE

----------------------------------------------------------------------------
(* Properties of the pre-filter and the crossings test taken together *)

\* Every vertex of every ring of the node lies in the box.
BoxEncloses(b, node) ==
    \A g \in DOMAIN node.the_geom : \A r \in DOMAIN node.the_geom[g] :
        \A v \in Range(VerticesOf(node.the_geom[g][r])) :
            b.x1 <= v[1] /\ v[1] <= b.x2 /\ b.y1 <= v[2] /\ v[2] <= b.y2

\* C19: for a boundary whose bounding box encloses all its ring vertices, a
\* coordinate for which the crossings test on the boundary counts an odd
\* number has passed the bounding-box pre-filter.
C19_PrefilterOnlyOptimisation ==
    pc \in {"crossings", "resolve", "done"} =>
        \A k \in DOMAIN tree :
            ( /\ BoxEncloses(DictGet(provinces, tree[k].fid), tree[k])
              /\ Cardinality(CountedInRings(tree[k], myLon, myLat)) % 2 = 1 )
            => DictHas(inProvince, tree[k].fid)

\* The edge from a to b meets the ray that runs east from (lon, lat): its
\* ends lie on different sides of the latitude and it cuts the latitude
\* east of the longitude.
RayMeets(a, b, lon, lat) ==
    /\ (a[2] > lat) # (b[2] > lat)
    /\ IF b[2] > a[2]
       THEN (lon - a[1]) * (b[2] - a[2]) < (lat - a[2]) * (b[1] - a[1])
       ELSE (lon - a[1]) * (b[2] - a[2]) > (lat - a[2]) * (b[1] - a[1])

\* (lon, lat) lies on the edge from a to b.
OnEdge(a, b, lon, lat) ==
    /\ (lon - a[1]) * (b[2] - a[2]) = (lat - a[2]) * (b[1] - a[1])
    /\ Lo(a[1], b[1]) <= lon /\ lon <= Hi(a[1], b[1])
    /\ Lo(a[2], b[2]) <= lat /\ lat <= Hi(a[2], b[2])

\* Inside by the ray cast: an odd number of edges meets the ray.
RayCastInside(prs, lon, lat) ==
    Cardinality({i \in 1..(Len(prs) - 1) :
                    RayMeets(prs[i], prs[i + 1], lon, lat)}) % 2 = 1

\* C20: for a boundary with one explicitly closed ring and a coordinate in
\* its bounding box and not on the ring, the crossings test holds the
\* coordinate inside exactly if the eastward ray cast does.
C20_SameAsRayCast ==
    pc \in {"resolve", "done"} =>
        \A k \in DOMAIN tree :
            LET prs == RingOf(tree[k])
            IN  ( /\ prs[1] = prs[Len(prs)]
                  /\ DictHas(inProvince, tree[k].fid)
                  /\ \A i \in 1..(Len(prs) - 1) :
                        ~OnEdge(prs[i], prs[i + 1], myLon, myLat) )
                => (Truthy(inProvince, tree[k].fid)
                      <=> RayCastInside(prs, myLon, myLat))

----------------------------------------------------------------------------
(* Files whose features share identifiers or codes, with boxes of any kind *)

\* The first gml:coordinates element of a feature: a box that is the extent
\* of its ring, a box that is smaller, a box with its corners the other way
\* round, or no gml:boundedBy so that the ring comes first.
BoxKinds == {"extent", "part", "flipped", "nobox"}

FeatureWithBox(fid, code, kind) ==
    CASE kind = "extent"  -> Feature(fid, code, FullBox, SquareGeom)
      [] kind = "part"    -> Feature(fid, code, <<0, 0, G, G>>, SquareGeom)
      [] kind = "flipped" -> Feature(fid, code, <<G, G, -G, -G>>, SquareGeom)
      [] kind = "nobox"   ->
            [Feature(fid, code, FullBox, SquareGeom) EXCEPT !.boundedBy = <<>>]

FeaturesParse ==
    {FeatureWithBox(fid, code, kind) :
        fid \in {"f1", "f2"}, code \in {"NADR", "CHSB"}, kind \in BoxKinds}

FilesParse == {<<a, b>> : a \in FeaturesParse, b \in FeaturesParse}

InitParse ==
    /\ num2prov = Rnum2prov
    /\ file \in FilesParse
    /\ reg = [pc |-> "off"]
    /\ df = NoTable
    /\ InitCommon

SpecParse == InitParse /\ [][Next]_vars

----------------------------------------------------------------------------
(* C21 *)

\* The last feature of the file with the identifier fid.
LastWithFid(fid) ==
    file[CHOOSE i \in DOMAIN file :
            /\ file[i].fid = fid
            /\ \A j \in (i + 1)..Len(file) : file[j].fid # fid]

\* The numbers of the first two "lon,lat" pieces of a coordinate string.
FirstTwoPairs(coords) ==
    <<float(coords[1][1]), float(coords[1][2]),
      float(coords[2][1]), float(coords[2][2])>>

\* C21: the loaded mapping has exactly one entry per distinct fid of the
\* file and is keyed by fid, not by provCode; the entry of a fid holds the
\* provCode and provName of the feature with that fid and, as x1, y1, x2, y2,
\* the first two "lon,lat" pairs of that feature's first coordinates element
\* as they stand, not the extent of its ring.
C21_OneEntryPerFid ==
    pc \notin {"start", "loadfailed"} =>
        /\ DictKeys(provinces) = {file[i].fid : i \in DOMAIN file}
        /\ Len(provinces) = Cardinality({file[i].fid : i \in DOMAIN file})
        /\ \A i \in DOMAIN provinces :
              LET node == LastWithFid(provinces[i][1])
                  p    == provinces[i][2]
              IN  /\ p.provCode = node.provcode
                  /\ p.provName = node.provdescr
                  /\ <<p.x1, p.y1, p.x2, p.y2>>
                        = FirstTwoPairs(GetCoordinates(node)[1])

\* Two features with the same code and different identifiers are loaded as
\* two entries, one of them with a box that is not the extent of its ring.
C21_Witness ==
    /\ pc = "ready"
    /\ file[1].fid # file[2].fid
    /\ file[1].provcode = file[2].provcode
    /\ Len(provinces) = 2
    /\ <<provinces[1][2].x1, provinces[1][2].y1,
         provinces[1][2].x2, provinces[1][2].y2>> = <<G, G, -G, -G>>
    /\ <<provinces[2][2].x1, provinces[2][2].y1,
         provinces[2][2].x2, provinces[2][2].y2>> = <<-G, -G, G, -G>>

----------------------------------------------------------------------------
(* C23 *)

\* The codes a session read out of the inverted dict of its table.
CodesRead == {k.str : k \in DictKeys(reg.inv)}

\* C23 as claimed: the three tables register exactly the same set of codes
\* (and differ only in the integers): the codes read out of any table are
\* the codes of each of the three.
C23_SameCodeSet ==
    reg.pc = "dicts" => \A t \in TableNames : CodesRead = Registered(t)

\* The codes of Rosie's table that the other two tables do not have.
RosieOnly == {"CHSB", "NPSE", "OCAL", "LAKE"}

\* C23 as amended: the MIT-order and the MarineRegions-order table register
\* exactly the same set of codes, under integers that differ; Rosie's table
\* registers these codes and four more: CHSB, NPSE, OCAL and LAKE.
C23_SameCodesButRosie ==
    reg.pc = "dicts" =>
        /\ reg.table \in {"MIT", "MarineRegionsOrg"} =>
              /\ CodesRead = Registered("MIT")
              /\ CodesRead = Registered("MarineRegionsOrg")
              /\ CodesRead \cap RosieOnly = {}
        /\ reg.table = "MarineRegionsOrg" =>
              \E k \in DictKeys(reg.inv) :
                  DictGet(reg.inv, k)
                    # LonghurstProvinceFileNum2Province(k, TRUE, FALSE)
        /\ reg.table = "Rosie" =>
              /\ CodesRead = Registered("MIT") \cup RosieOnly
              /\ Cardinality(CodesRead) = Cardinality(Registered("MIT")) + 4

\* The dicts of Rosie's table are read: 58 codes, CHSB among them.
C23_Witness ==
    /\ reg.pc = "dicts"
    /\ reg.table = "Rosie"
    /\ Len(reg.inv) = 58
    /\ DictHas(reg.inv, PyStr("CHSB"))

----------------------------------------------------------------------------
(* C29 *)

\* The codes registered in any of the three tables.
RegisteredAnywhere == UNION {Registered(t) : t \in TableNames}

\* C29: every code of the MIT-order and of the MarineRegions-order table is
\* a key of the inverted Rosie table, so its conversion to a Rosie index
\* returns an integer; and every code of any of the three tables has a full
\* name, so Get_LonghurstProvinceName4Num of it returns a name. Neither
\* conversion raises.
C29_RegistryCoverage ==
    /\ (reg.pc = "dicts" /\ reg.table \in {"MIT", "MarineRegionsOrg"})
        => DictKeys(reg.inv) \subseteq DictKeys(Rnum2prov)
    /\ (reg.pc = "inverted" /\ reg.table = "Rosie"
          /\ reg.code \in Registered("MIT") \cup Registered("MarineRegionsOrg"))
        => reg.index.kind = "int"
    /\ (reg.pc = "named" /\ reg.key.kind = "str"
          /\ reg.key.str \in RegisteredAnywhere)
        => reg.out.kind = "str"

\* The full name of WTRA, a code of all three tables, is looked up.
C29_Witness ==
    /\ reg.pc = "named"
    /\ reg.key = PyStr("WTRA")
    /\ reg.key.str \in Registered("MIT")
    /\ reg.out = PyStr("WesternTropicalAtlanticProvince")

----------------------------------------------------------------------------
(* C24 *)

\* C24 as claimed: a verbose call that holds several boundaries as inside
\* has printed, for each of them, a line with its code and its name.
C24_VerboseListsEachConflict ==
    (pc = "done" /\ verbose /\ Cardinality(InsideSet) > 1)
    => \A k \in InsideSet :
          \E i \in DOMAIN stdout :
              stdout[i] = print(<<PyStr(DictGet(provinces, k).provCode),
                                  PyStr("\t"),
                                  PyStr(DictGet(provinces, k).provName)>>)

----------------------------------------------------------------------------
(* Calls with any of provinces, tree and num2prov left out, on a store that
   need not come from the file on disk *)

\* Documents that parse: none, one or two features.
DocsArgs ==
    {<<>>,
     <<Feature("f1", "NADR", FullBox, SquareGeom)>>,
     <<Feature("f2", "CHSB", FullBox, WestGeom)>>,
     <<Feature("f1", "NADR", FullBox, SquareGeom),
       Feature("f2", "CHSB", FullBox, WestGeom)>>}

\* The file on disk: one of the documents or a file that does not parse.
FilesArgs == DocsArgs \cup {<<FeatureOfKind("f1", "nonnumeric")>>}

\* The caller holds a provinces mapping parsed from one document and the
\* tree of one (the same or another); the file on disk is any file.
InitArgs ==
    /\ num2prov = Rnum2prov
    /\ file \in FilesArgs
    /\ \E d \in DocsArgs : provinces = ParseLonghurstProvinceFile(d).value[1]
    /\ tree \in DocsArgs
    /\ pc = "ready"
    /\ myLon = 0
    /\ myLat = 0
    /\ verbose = FALSE
    /\ inProvince = <<>>
    /\ crossings = <<>>
    /\ stdout = <<>>
    /\ ret = NoValue
    /\ memo = NoMemo
    /\ bind = Passed(TRUE, TRUE, TRUE)
    /\ other = NoCall
    /\ reg = [pc |-> "off"]
    /\ df = NoTable

NextArgs ==
    \/ \E lon \in Coord, lat \in Coord, gp \in BOOLEAN, gt \in BOOLEAN,
          gn \in BOOLEAN : CallWith(lon, lat, FALSE, gp, gt, gn)
    \/ Prefilter
    \/ Crossings
    \/ Resolve

SpecArgs == InitArgs /\ [][NextArgs]_vars

\* What a call for (lon, lat) on the mapping provs, the tree doc and the
\* registry gives when it runs from its first line to its return.
Alone(provs, doc, hasRegistry, registry, lon, lat) ==
    LET inP == BBoxFilter(provs, lon, lat, <<>>)
        st  == CrossingsTest(doc, lon, lat, [inP |-> inP, cnt |-> <<>>])
    IN  ResolutionWith(Solution(st.inP, provs, <<>>), hasRegistry, registry)

\* What the file on disk gives when it is parsed.
OnDisk == ParseLonghurstProvinceFile(file)

\* The call was given provinces / tree / num2prov.
GivenProvinces == bind.given[1]

GivenTree == bind.given[2]

GivenNum2prov == bind.given[3]

----------------------------------------------------------------------------
(* C22 *)

\* C22 as claimed: no call of the classifier reads the boundary file: the
\* provinces and the tree a call works on are never those of a parse that
\* the call made itself.
C22_CallNeverParses ==
    bind.provinces # "fresh" /\ bind.tree # "fresh"

\* C22 as amended: a call that is given provinces does not read the file:
\* it works on what it was given, and what it returns is what the given
\* mapping and tree give, whatever file is on disk; a call with provinces
\* left out parses the file itself: it ends with the error of the parse or
\* works on, and returns, what the file on disk gives.
C22_ParsesOnlyWithoutProvinces ==
    /\ (pc # "ready" /\ GivenProvinces)
        => /\ bind.provinces = "caller" /\ bind.tree # "fresh"
           /\ (pc = "done" /\ GivenTree)
               => ret = Alone(provinces, tree, GivenNum2prov, num2prov,
                              myLon, myLat)
    /\ (pc # "ready" /\ ~GivenProvinces)
        => IF OnDisk.raised
           THEN pc = "done" /\ ret = OnDisk.error
           ELSE /\ bind.provinces = "fresh"
                /\ pc = "done"
                    => ret = Alone(OnDisk.value[1], OnDisk.value[2],
                                   GivenNum2prov, num2prov, myLon, myLat)

\* A call without provinces has returned Rosie's index of NADR, the
\* province of the file on disk, while the caller's mapping is empty.
C22_Witness ==
    /\ pc = "done"
    /\ ~GivenProvinces
    /\ provinces = <<>>
    /\ file = <<Feature("f1", "NADR", FullBox, SquareGeom)>>
    /\ ret = PyInt(4)

----------------------------------------------------------------------------
(* C26 *)

\* The tree holds a node with the identifier fid.
HasNode(doc, fid) == \E i \in DOMAIN doc : doc[i].fid = fid

\* C26 as claimed: for any mapping and tree passed, every boundary that the
\* call holds as inside once the crossings test has run passed the
\* bounding-box filter, has a node in the tree and was counted there with
\* an odd number of crossings.
C26_InsideHasOddCount ==
    (pc \in {"resolve", "done"} /\ GivenProvinces /\ GivenTree)
    => \A k \in InsideSet :
          /\ InBBox(DictGet(provinces, k), myLon, myLat)
          /\ HasNode(tree, k)
          /\ DictHas(crossings, k)
          /\ DictGet(crossings, k) % 2 = 1

----------------------------------------------------------------------------
(* C27 *)

\* The call got through the filter and the crossings test to a return.
Resolved == pc = "done" /\ bind.provinces # "None" /\ bind.tree # "None"

\* C27 as claimed: a call without num2prov that gets to its returns gives
\* NaN when it holds no boundary or several as inside and raises an error
\* when it holds exactly one; it returns neither a code nor an index.
C27_NoRegistryNoProvince ==
    (Resolved /\ ~GivenNum2prov)
    => /\ Cardinality(InsideSet) # 1 => ret = NaN
       /\ Cardinality(InsideSet) = 1 => ret.kind = "TypeError"
       /\ ret.kind \notin {"str", "int"}

----------------------------------------------------------------------------
(* C28 *)

\* C28: a call without provinces works on a fresh parse of the file for
\* both provinces and tree, also when a tree was supplied: it returns what
\* the file on disk gives (or raises what the parse raises), not what the
\* supplied tree gives. A call with provinces never parses: with a tree it
\* works on the pair given, and without a tree it raises AttributeError
\* for every coordinate.
C28_LazyLoadOnlyWithoutProvinces ==
    /\ (pc # "ready" /\ ~GivenProvinces /\ ~OnDisk.raised)
        => /\ theProvinces = OnDisk.value[1]
           /\ theTree = OnDisk.value[2]
           /\ pc = "done"
               => ret = Alone(OnDisk.value[1], OnDisk.value[2],
                              GivenNum2prov, num2prov, myLon, myLat)
    /\ (pc # "ready" /\ GivenProvinces)
        => /\ theProvinces = provinces
           /\ bind.tree = IF GivenTree THEN "caller" ELSE "None"
    /\ (pc = "done" /\ GivenProvinces /\ ~GivenTree)
        => ret = AttributeError

\* A call without provinces but with the caller's tree, an empty one, has
\* returned Rosie's index of NADR, the province of the file on disk.
C28_Witness ==
    /\ pc = "done"
    /\ bind.given = <<FALSE, TRUE, TRUE>>
    /\ tree = <<>>
    /\ file = <<Feature("f1", "NADR", FullBox, SquareGeom)>>
    /\ ret = PyInt(4)

----------------------------------------------------------------------------
(* add_LonghurstProvince2NetCDF: the grid of a dataset *)

\* The names pd and get_Oi_file_locations as the module has them: bound
\* nowhere, so evaluating them raises NameError.
pd == NameError("pd")

get_Oi_file_locations == NameError("get_Oi_file_locations")

\* The dataset ds that the caller passes, with its coordinate arrays.
Dataset(DSlats, DSlons) == [kind |-> "dataset", lat |-> DSlats, lon |-> DSlons]

\* Lines 55-58: ds is None; the file name is formatted and line 57 calls
\* get_Oi_file_locations.
DefaultDataset ==
    /\ df = None
    /\ pc = "ready"
    /\ ret' = get_Oi_file_locations
    /\ pc' = "aborted"
    /\ UNCHANGED <<file, provinces, tree, num2prov, myLon, myLat, verbose,
                   inProvince, crossings, stdout, memo, reg, df, bind, other>>

\* Lines 74-77: the lists lats and lons, one item per cell, latitudes in
\* the outer loop and longitudes in the inner one.
LongForm(DSlats, DSlons) ==
    [lats |-> [n \in 1..(Len(DSlats) * Len(DSlons)) |->
                  DSlats[((n - 1) \div Len(DSlons)) + 1]],
     lons |-> [n \in 1..(Len(DSlats) * Len(DSlons)) |->
                  DSlons[((n - 1) % Len(DSlons)) + 1]]]

\* Lines 60-80: the registry is read, the long form of the grid is built and
\* line 80 evaluates pd.DataFrame(): NameError. No cell is classified and
\* lines 81-112 are not reached.
NewFrame ==
    /\ df.kind = "dataset"
    /\ pc = "ready"
    /\ df' = [kind |-> "dataset", lat |-> df.lat, lon |-> df.lon,
              long |-> LongForm(df.lat, df.lon), classified |-> <<>>]
    /\ ret' = pd
    /\ pc' = "aborted"
    /\ UNCHANGED <<file, provinces, tree, num2prov, myLon, myLat, verbose,
                   inProvince, crossings, stdout, memo, reg, bind, other>>

\* Coordinate arrays of a dataset: distinct values in any order.
Axes ==
    UNION {{a \in [1..n -> Coord] : \A i, j \in 1..n : i # j => a[i] # a[j]} :
              n \in 1..MaxAxis}

\* One province over the whole square, its box over a part of it.
FilesGrid ==
    {<<Feature("f1", c, b, SquareGeom)>> : c \in {"NADR", "TEST"}, b \in CornerBoxes}

InitGrid ==
    /\ num2prov = Rnum2prov
    /\ file \in FilesGrid
    /\ reg = [pc |-> "off"]
    /\ \/ df = None
       \/ \E DSlats \in Axes, DSlons \in Axes : df = Dataset(DSlats, DSlons)
    /\ InitCommon

NextGrid ==
    \/ Load
    \/ DefaultDataset
    \/ NewFrame

SpecGrid == InitGrid /\ [][NextGrid]_vars

----------------------------------------------------------------------------
(* C30 *)

\* The function has ended: it has saved its dataset or an error has left it.
GridEnded == pc \in {"saved", "aborted"}

\* C30 as claimed: when the function has ended on a dataset, every cell of
\* the grid was classified exactly once, with its coordinate as (lon, lat),
\* and the value at position [i, j] of the variable of the output is the
\* classification of (lon[j], lat[i]) for the output's own coordinate
\* arrays, whatever their order.
C30_GridValueAtItsCoordinate ==
    (df.kind = "dataset" /\ GridEnded)
    => /\ "Province" \in DOMAIN df
       /\ Len(df.classified) = Len(df.lat) * Len(df.lon)
       /\ \A i \in DOMAIN df.lat, j \in DOMAIN df.lon :
             /\ Cardinality({n \in DOMAIN df.classified :
                                df.classified[n] = <<df.lon[j], df.lat[i]>>}) = 1
             /\ df.Province[i][j]
                  = Alone(provinces, tree, TRUE, num2prov, df.lon[j], df.lat[i])
----------------------------------------------------------------------------
(* Two calls at the same time on one store and one registry *)

\* The second call is entered (lines 221-227) while the first is anywhere;
\* it notes whether the first call was running then.
OtherCall(lon, lat) ==
    /\ pc # "start"
    /\ other.pc \in {"off", "done"}
    /\ other' = [pc |-> "filter", myLon |-> lon, myLat |-> lat,
                 inProvince |-> EmptyDict, crossings |-> <<>>, ret |-> NoValue,
                 overlap |-> pc \in {"filter", "crossings", "resolve"}]
    /\ UNCHANGED <<classifierVars, memo, reg, df>>

\* The pre-filter of the second call with inProvince a dict of the module,
\* the one the first call works on too.
OtherPrefilterOnModuleDict ==
    /\ other.pc = "filter"
    /\ LET d == BBoxFilter(provinces, other.myLon, other.myLat, inProvince)
       IN  /\ inProvince' = d
           /\ other' = [other EXCEPT !.inProvince = d, !.pc = "crossings"]
    /\ UNCHANGED <<file, provinces, tree, num2prov, pc, myLon, myLat, verbose,
                   crossings, stdout, ret, bind, memo, reg, df>>

\* Lines 226-236 in the second call: its own inProvince is filled.
OtherPrefilter ==
    /\ other.pc = "filter"
    /\ other' = [other EXCEPT
                   !.inProvince = BBoxFilter(provinces, other.myLon,
                                             other.myLat, other.inProvince),
                   !.pc = "crossings"]
    /\ UNCHANGED <<classifierVars, memo, reg, df>>

\* Lines 238-267 in the second call.
OtherCrossings ==
    /\ other.pc = "crossings"
    /\ LET st == CrossingsTest(tree, other.myLon, other.myLat,
                               [inP |-> other.inProvince, cnt |-> <<>>])
       IN  other' = [other EXCEPT !.inProvince = st.inP, !.crossings = st.cnt,
                                  !.pc = "resolve"]
    /\ UNCHANGED <<classifierVars, memo, reg, df>>

\* Lines 269-302 in the second call (verbose=False).
OtherResolve ==
    /\ other.pc = "resolve"
    /\ other' = [other EXCEPT
                   !.ret = Resolution(Solution(other.inProvince, provinces, <<>>),
                                      num2prov),
                   !.pc = "done"]
    /\ UNCHANGED <<classifierVars, memo, reg, df>>

FilesConc ==
    {<<Feature("f1", "NADR", b, SquareGeom)>> : b \in CornerBoxes}
    \cup {<<Feature("f1", "NADR", b, SquareGeom),
            Feature("f2", "CHSB", FullBox, SquareGeom)>> : b \in CornerBoxes}

InitConc ==
    /\ num2prov = Rnum2prov
    /\ file \in FilesConc
    /\ reg = [pc |-> "off"]
    /\ df = NoTable
    /\ InitCommon

NextConc ==
    \/ Next
    \/ \E lon \in Coord, lat \in Coord : OtherCall(lon, lat)
    \/ OtherPrefilter
    \/ OtherCrossings
    \/ OtherResolve

SpecConc == InitConc /\ [][NextConc]_vars

----------------------------------------------------------------------------
(* C25 *)

\* C25: however the steps of two calls on one store and registry are
\* interleaved, each call that has returned has the outcome of a call for
\* its coordinates run alone, and the store and the registry are what they
\* were after the load.
C25_InterleavedAsAlone ==
    pc # "start" =>
        /\ pc = "done"
            => ret = Alone(provinces, tree, TRUE, num2prov, myLon, myLat)
        /\ other.pc = "done"
            => other.ret = Alone(provinces, tree, TRUE, num2prov,
                                 other.myLon, other.myLat)
        /\ provinces = ParseLonghurstProvinceFile(file).value[1]
        /\ tree = file
        /\ num2prov = Rnum2prov

\* Two calls that ran at the same time have ended, one with an index and
\* the other, outside every boundary, with the NameError of line 284.
C25_Witness ==
    /\ pc = "done"
    /\ other.pc = "done"
    /\ other.overlap
    /\ <<myLon, myLat>> # <<other.myLon, other.myLat>>
    /\ ret.kind = "int"
    /\ other.inProvince = <<>>
    /\ other.ret.kind = "NameError"
====
